---- MODULE Spec2Model ----
(***************************************************************************)
(* Storage-and-synchronization engine of container-use: the Repository     *)
(* facade (Create / Get / Update), worktree materialization, the commit    *)
(* protocol propagateToWorktree, the change classifier and the note store. *)
(* Git objects are modelled abstractly: a commit is an entry of `commits`, *)
(* a tree is a function from paths to content classes, a ref is a commit   *)
(* number (0 = the ref does not exist).  File names are sequences of       *)
(* characters so that the suffix and substring tests of the classifier are *)
(* computed as the code computes them.                                     *)
(***************************************************************************)
EXTENDS Integers, Sequences, FiniteSets, TLC

----------------------------------------------------------------------------
(* Bounds of the model *)

MaxCommits == 4
MaxEntries == 2
MaxFaults == 1
MaxForeign == 1
MaxNotes == 3
MaxNameLen == 3

----------------------------------------------------------------------------
(* Strings as character sequences *)

UpperToLower ==
  ("A" :> "a") @@ ("B" :> "b") @@ ("C" :> "c") @@ ("D" :> "d") @@ ("E" :> "e") @@ ("F" :> "f") @@ ("G" :> "g") @@ ("H" :> "h") @@ ("I" :> "i") @@ ("J" :> "j") @@ ("K" :> "k") @@ ("L" :> "l") @@ ("M" :> "m") @@ ("N" :> "n") @@ ("O" :> "o") @@ ("P" :> "p") @@ ("Q" :> "q") @@ ("R" :> "r") @@ ("S" :> "s") @@ ("T" :> "t") @@ ("U" :> "u") @@ ("V" :> "v") @@ ("W" :> "w") @@ ("X" :> "x") @@ ("Y" :> "y") @@ ("Z" :> "z")

toLowerChar(c) == IF c \in DOMAIN UpperToLower THEN UpperToLower[c] ELSE c

ToLower(s) == [i \in 1..Len(s) |-> toLowerChar(s[i])]

HasSuffix(s, suf) ==
  /\ Len(suf) <= Len(s)
  /\ SubSeq(s, Len(s) - Len(suf) + 1, Len(s)) = suf

Contains(s, sub) ==
  \E i \in 0..(Len(s) - Len(sub)) : SubSeq(s, i + 1, i + Len(sub)) = sub

TrimSuffix(s, suf) ==
  IF HasSuffix(s, suf) THEN SubSeq(s, 1, Len(s) - Len(suf)) ELSE s

Slash == <<"/">>

----------------------------------------------------------------------------
(* Change classifier: name-based denylists *)

skipExtensions ==
  << <<".","t","a","r">>,
     <<".","t","a","r",".","g","z">>,
     <<".","t","g","z">>,
     <<".","t","a","r",".","b","z","2">>,
     <<".","t","b","z","2">>,
     <<".","t","a","r",".","x","z">>,
     <<".","t","x","z">>,
     <<".","z","i","p">>,
     <<".","r","a","r">>,
     <<".","7","z">>,
     <<".","g","z">>,
     <<".","b","z","2">>,
     <<".","x","z">>,
     <<".","e","x","e">>,
     <<".","b","i","n">>,
     <<".","d","m","g">>,
     <<".","p","k","g">>,
     <<".","m","s","i">>,
     <<".","j","p","g">>,
     <<".","j","p","e","g">>,
     <<".","p","n","g">>,
     <<".","g","i","f">>,
     <<".","b","m","p">>,
     <<".","t","i","f","f">>,
     <<".","s","v","g">>,
     <<".","m","p","3">>,
     <<".","m","p","4">>,
     <<".","a","v","i">>,
     <<".","m","o","v">>,
     <<".","w","m","v">>,
     <<".","f","l","v">>,
     <<".","m","k","v">>,
     <<".","p","d","f">>,
     <<".","d","o","c">>,
     <<".","d","o","c","x">>,
     <<".","x","l","s">>,
     <<".","x","l","s","x">>,
     <<".","p","p","t">>,
     <<".","p","p","t","x">>,
     <<".","s","o">>,
     <<".","d","y","l","i","b">>,
     <<".","d","l","l">>,
     <<".","a">>,
     <<".","l","i","b">> >>

skipPatterns ==
  << <<"n","o","d","e","_","m","o","d","u","l","e","s","/">>,
     <<".","g","i","t","/">>,
     <<"_","_","p","y","c","a","c","h","e","_","_","/">>,
     <<".","D","S","_","S","t","o","r","e">>,
     <<"v","e","n","v","/">>,
     <<".","v","e","n","v","/">>,
     <<"e","n","v","/">>,
     <<".","e","n","v","/">>,
     <<"t","a","r","g","e","t","/">>,
     <<"b","u","i","l","d","/">>,
     <<"d","i","s","t","/">>,
     <<".","n","e","x","t","/">>,
     <<"*",".","t","m","p">>,
     <<"*",".","t","e","m","p">>,
     <<"*",".","c","a","c","h","e">>,
     <<"*",".","l","o","g">> >>

shouldSkipFile(fileName) ==
  LET lowerName == ToLower(fileName) IN
  \/ \E i \in 1..Len(skipExtensions) : HasSuffix(lowerName, skipExtensions[i])
  \/ \E i \in 1..Len(skipPatterns) : Contains(lowerName, ToLower(skipPatterns[i]))

----------------------------------------------------------------------------
(* Files and trees *)

AppPy == <<"a","p","p",".","p","y">>
ArchiveTarGz == <<"a","r","c","h","i","v","e",".","t","a","r",".","g","z">>
ConfigDir == <<".","c","o","n","t","a","i","n","e","r","-","u","s","e","/">>
ConfigFile == <<".","c","o","n","t","a","i","n","e","r","-","u","s","e","/","e","n","v","i","r","o","n","m","e","n","t",".","j","s","o","n">>

UserPaths == {AppPy, ArchiveTarGz}
Paths == UserPaths \cup {ConfigFile}

\* content classes of a path in a tree: absent, text, or bytes holding a NUL
Absent == 0
Text == 1
Binary == 2
Contents == {Absent, Text, Binary}

Trees == [Paths -> Contents]
EmptyTree == [p \in Paths |-> Absent]

UserTrees == {t \in Trees : t[ConfigFile] = Absent /\ t[ArchiveTarGz] # Binary}

\* the top-level directory of a path ("" when the path is a plain file name)
Dir(p) ==
  IF \E i \in 1..Len(p) : p[i] = "/"
  THEN SubSeq(p, 1, CHOOSE i \in 1..Len(p) : p[i] = "/" /\ \A j \in 1..(i - 1) : p[j] # "/")
  ELSE <<>>

----------------------------------------------------------------------------
(* git status --porcelain of a worktree whose index equals its HEAD tree:  *)
(* one line [x, y, name] per changed path; a directory that holds no       *)
(* tracked file is reported as one "??" line ending in "/".                *)

Untracked(head, wt, p) == head[p] = Absent /\ wt[p] # Absent

WhollyUntracked(head, d) == \A q \in Paths : Dir(q) = d => head[q] = Absent

Status(head, wt) ==
  {[x |-> " ", y |-> "D", name |-> p] : p \in {q \in Paths : head[q] # Absent /\ wt[q] = Absent}}
  \cup
  {[x |-> " ", y |-> "M", name |-> p] :
     p \in {q \in Paths : head[q] # Absent /\ wt[q] # Absent /\ wt[q] # head[q]}}
  \cup
  {[x |-> "?", y |-> "?", name |-> p] :
     p \in {q \in Paths : Untracked(head, wt, q) /\ ~(Dir(q) # <<>> /\ WhollyUntracked(head, Dir(q)))}}
  \cup
  {[x |-> "?", y |-> "?", name |-> Dir(p)] :
     p \in {q \in Paths : Untracked(head, wt, q) /\ Dir(q) # <<>> /\ WhollyUntracked(head, Dir(q))}}

----------------------------------------------------------------------------
(* Change classifier: content sniffing and selective staging *)

isBinaryFile(wt, fileName) ==
  IF fileName \notin Paths \/ wt[fileName] = Absent
  THEN TRUE                       \* os.Stat fails
  ELSE wt[fileName] = Binary      \* a NUL byte in the sampled prefix

addFilesFromUntrackedDirectory(wt, dirName) ==
  {p \in Paths :
     /\ wt[p] # Absent
     /\ Dir(p) = dirName \o Slash
     /\ ~shouldSkipFile(dirName \o Slash)
     /\ ~shouldSkipFile(p)
     /\ ~isBinaryFile(wt, p)}

\* the names one status line makes addNonBinaryFiles pass to `git add`
addLine(wt, line) ==
  IF shouldSkipFile(line.name) THEN {}
  ELSE IF line.x = "?" /\ line.y = "?"
       THEN IF HasSuffix(line.name, Slash)
            THEN addFilesFromUntrackedDirectory(wt, TrimSuffix(line.name, Slash))
            ELSE IF ~isBinaryFile(wt, line.name) THEN {line.name} ELSE {}
  ELSE IF line.x = "A" THEN {}
  ELSE IF line.x = "D" \/ line.y = "D" THEN {line.name}
  ELSE IF ~isBinaryFile(wt, line.name) THEN {line.name} ELSE {}

addNonBinaryFiles(status, wt) == UNION {addLine(wt, line) : line \in status}

\* the tree `git commit` records: HEAD with the staged paths taken from the worktree
StagedTree(head, wt, added) == [p \in Paths |-> IF p \in added THEN wt[p] ELSE head[p]]

----------------------------------------------------------------------------
(* Change classifier on the bytes of one file: isBinaryFile as it reads the *)
(* file, and the `git add` one status line leads to                         *)

\* 10MB
maxFileSizeForTextCheck == 10 * 1024 * 1024

\* buffer := make([]byte, 8000)
SampleLen == 8000

Min(a, b) == IF a <= b THEN a ELSE b

\* a file on disk: its size, the position of its first NUL byte (0 = none), and
\* whether os.Open on it is refused
NoFile == [exists |-> FALSE, size |-> 0, nul |-> 0, denied |-> FALSE]

ProbeSizes ==
  {0, 1, SampleLen - 1, SampleLen, SampleLen + 1,
   maxFileSizeForTextCheck - 1, maxFileSizeForTextCheck, maxFileSizeForTextCheck + 1}

ProbeFiles ==
  {NoFile} \cup
  {f \in [exists : {TRUE}, size : ProbeSizes, nul : {0, 1, SampleLen, SampleLen + 1},
           denied : BOOLEAN] :
     f.nul <= f.size}

ArchiveUpper == <<"A","R","C","H","I","V","E",".","T","A","R",".","G","Z">>
NotesLog == <<"n","o","t","e","s",".","l","o","g">>
SrcDir == <<"s","r","c","/">>

ProbeNames == {AppPy, ArchiveTarGz, ArchiveUpper, NotesLog}

\* the XY codes of git status --porcelain that are tried
ProbeCodes ==
  {<<"?", "?">>, <<" ", "M">>, <<"M", " ">>, <<"M", "M">>, <<"A", " ">>, <<"A", "M">>,
   <<" ", "D">>, <<"D", " ">>, <<"A", "D">>, <<"R", " ">>, <<" ", "T">>}

\* variant: the size ceiling itself counts as too large
isBinaryFileOf_AtCeiling(f) ==
  IF ~f.exists THEN TRUE
  ELSE IF f.size >= maxFileSizeForTextCheck THEN TRUE
  ELSE IF f.denied THEN TRUE
  ELSE LET n == Min(f.size, SampleLen)
       IN IF n = 0 THEN TRUE ELSE f.nul \in 1..n

\* isBinaryFile on a regular file: os.Stat, the size test, os.Open, one Read of
\* up to 8000 bytes (which returns 0, io.EOF on an empty file), the NUL search
isBinaryFileOf(f) ==
  IF ~f.exists THEN TRUE
  ELSE IF f.size > maxFileSizeForTextCheck THEN TRUE
  ELSE IF f.denied THEN TRUE
  ELSE LET n == Min(f.size, SampleLen)
       IN IF n = 0 THEN TRUE ELSE f.nul \in 1..n

\* what filepath.Walk meets below an untracked directory: nothing unusual, a
\* directory it cannot read, or an entry it cannot lstat
Walks == {"ok", "dir", "entry"}

\* the error filepath.Walk hands to the callback, which the callback returns;
\* the callback's first visit of a skipped directory answers SkipDir before
WalkErr(dirName, walk) == ~shouldSkipFile(dirName \o Slash) /\ walk # "ok"

\* filepath.Walk of an untracked directory that holds the one file
addFilesFromUntrackedDirectoryOf(dirName, rel, f) ==
  IF shouldSkipFile(dirName \o Slash) \/ ~f.exists THEN {}
  ELSE IF shouldSkipFile(rel) THEN {}
  ELSE IF ~isBinaryFileOf(f) THEN {rel} ELSE {}

\* variant: a file whose content is text is staged before its name is tested
addLineOf_SniffFirst(line, rel, f) ==
  IF ~isBinaryFileOf(f) THEN {rel}
  ELSE IF line.x = "D" \/ line.y = "D" THEN {line.name} ELSE {}

\* the arguments of `git add` that one status line leads to; rel is the path of
\* the file (the line's name, or a path below it when the line names a directory)
addLineOf(line, rel, f) ==
  IF shouldSkipFile(line.name) THEN {}
  ELSE IF line.x = "?" /\ line.y = "?"
       THEN IF HasSuffix(line.name, Slash)
            THEN addFilesFromUntrackedDirectoryOf(TrimSuffix(line.name, Slash), rel, f)
            ELSE IF ~isBinaryFileOf(f) THEN {line.name} ELSE {}
  ELSE IF line.x = "A" THEN {}
  ELSE IF line.x = "D" \/ line.y = "D" THEN {line.name}
  ELSE IF ~isBinaryFileOf(f) THEN {line.name} ELSE {}

\* whether addNonBinaryFiles returns an error for the status line: the error
\* of the walk of an untracked directory is returned as it is
addNonBinaryFilesErr(line, walk) ==
  /\ ~shouldSkipFile(line.name)
  /\ line.x = "?" /\ line.y = "?"
  /\ HasSuffix(line.name, Slash)
  /\ WalkErr(TrimSuffix(line.name, Slash), walk)

NoSniff ==
  [pc |-> "idle", line |-> [x |-> " ", y |-> " ", name |-> <<>>], rel |-> <<>>,
   file |-> NoFile, binary |-> FALSE, added |-> {}, walk |-> "ok", err |-> FALSE]

\* one changed file: reported by its own status line, or inside an untracked
\* directory that is reported as one line; a deleted file is not on disk
Probes ==
  {[NoSniff EXCEPT !.line = [x |-> c[1], y |-> c[2], name |-> n], !.rel = n, !.file = f] :
     c \in ProbeCodes, n \in ProbeNames,
     f \in {g \in ProbeFiles : g.exists}}
  \cup
  {[NoSniff EXCEPT !.line = [x |-> c[1], y |-> c[2], name |-> n], !.rel = n] :
     c \in {<<" ", "D">>, <<"D", " ">>, <<"A", "D">>}, n \in ProbeNames}
  \cup
  {[NoSniff EXCEPT !.line = [x |-> "?", y |-> "?", name |-> SrcDir], !.rel = SrcDir \o n,
                   !.file = f, !.walk = w] :
     n \in ProbeNames, f \in {g \in ProbeFiles : g.exists}, w \in Walks}

Deleted(line) == line.x = "D" \/ line.y = "D"

NoListed == [pc |-> "idle", branches |-> <<>>, out |-> <<>>, envs |-> <<>>, err |-> FALSE]

\* no name is on its way, no tool is called
NoNamed ==
  [pc |-> "idle", name |-> <<>>, suffix |-> <<>>, explanation |-> <<>>,
   id |-> <<>>, got |-> <<>>, title |-> <<>>, message |-> <<>>]

\* one call of an MCP tool handler; result "none" is the nil *mcp.CallToolResult
NoTool ==
  [pc |-> "idle", name |-> "none", background |-> FALSE, getFails |-> FALSE,
   opFails |-> FALSE, propagateFails |-> FALSE, marshalFails |-> FALSE,
   opErr |-> FALSE, fnErr |-> FALSE, updateErr |-> FALSE,
   local |-> "none", result |-> "none"]

----------------------------------------------------------------------------
(* State *)

(* The mirror path: normalizeForkPath and normalizeGitURL *)

None == <<>>

IndexOf(s, sub) ==
  LET hits == {i \in 1..(Len(s) - Len(sub) + 1) : SubSeq(s, i, i + Len(sub) - 1) = sub}
  IN IF hits = {} THEN 0 ELSE CHOOSE i \in hits : \A j \in hits : i <= j

From(s, i) == SubSeq(s, i, Len(s))

Colon == <<":">>
At == <<"@">>
SchemeSep == <<":", "/", "/">>
DotGit == <<".", "g", "i", "t">>

\* urlSchemeRegExp ^[^:]+:// : the first colon opens "://" and is not the first character
matchesURLScheme(url) ==
  IndexOf(url, SchemeSep) > 1 /\ IndexOf(url, Colon) = IndexOf(url, SchemeSep)

\* scpLikeURLRegExp, for endpoints without a port: [user@]host:path, where
\* the path has a "/" with a character before and after it
scpHostStart(url) ==
  LET a == IndexOf(url, At) IN IF a > 1 /\ a < IndexOf(url, Colon) THEN a + 1 ELSE 1

scpHost(url) == SubSeq(url, scpHostStart(url), IndexOf(url, Colon) - 1)

scpPath(url) == From(url, IndexOf(url, Colon) + 1)

matchesScpLike(url) ==
  /\ IndexOf(url, Colon) > 0
  /\ scpHost(url) # <<>>
  /\ \E i \in 2..(Len(scpPath(url)) - 1) : scpPath(url)[i] = "/"

\* normalizeSCPLike: host "/" path, without a trailing ".git"
normalizeSCPLike(endpoint) ==
  IF matchesURLScheme(endpoint) \/ ~matchesScpLike(endpoint)
  THEN [ok |-> FALSE, e |-> None]
  ELSE [ok |-> TRUE, e |-> scpHost(endpoint) \o Slash \o TrimSuffix(scpPath(endpoint), DotGit)]

\* url.Parse: an absolute URL has a scheme; Hostname() is the authority
\* without user and port, Path what follows it
urlAuthority(u) ==
  LET r == From(u, IndexOf(u, SchemeSep) + 3)
      e == IndexOf(r, Slash)
  IN IF e = 0 THEN r ELSE SubSeq(r, 1, e - 1)

urlPath(u) ==
  LET r == From(u, IndexOf(u, SchemeSep) + 3)
      e == IndexOf(r, Slash)
  IN IF e = 0 THEN <<>> ELSE From(r, e)

urlHostname(u) ==
  LET a == urlAuthority(u)
      h == IF IndexOf(a, At) > 0 THEN From(a, IndexOf(a, At) + 1) ELSE a
  IN IF IndexOf(h, Colon) > 0 THEN SubSeq(h, 1, IndexOf(h, Colon) - 1) ELSE h

\* normalizeURL: an endpoint that is not an absolute URL is an error
normalizeURL(endpoint) ==
  IF ~matchesURLScheme(endpoint)
  THEN [ok |-> FALSE, e |-> None]
  ELSE [ok |-> TRUE, e |-> urlHostname(endpoint) \o TrimSuffix(urlPath(endpoint), DotGit)]

normalizeGitURL(endpoint) ==
  IF normalizeSCPLike(endpoint).ok THEN normalizeSCPLike(endpoint) ELSE normalizeURL(endpoint)

\* filepath.Join of a directory and a path below it
Join(dir, elem) ==
  IF elem # <<>> /\ elem[1] = "/" THEN dir \o elem ELSE dir \o Slash \o elem

HomeDir == <<"/", "h">>

\* homedir.Expand
Expand(path) == IF path # <<>> /\ path[1] = "~" THEN HomeDir \o Tail(path) ELSE path

cuRepoPath == <<"~", "/", ".", "c", "o", "n", "f", "i", "g", "/", "c", "o", "n", "t", "a", "i", "n", "e", "r", "-", "u", "s", "e", "/", "r", "e", "p", "o", "s">>

\* the source repository (absolute path) and the origins it may have
SourcePath == <<"/", "s", "r", "c", "/", "a", "p", "p">>
OriginHttps == <<"h", "t", "t", "p", "s", ":", "/", "/", "g", "i", "t", "h", "u", "b", ".", "c", "o", "m", "/", "o", "/", "r", ".", "g", "i", "t">>
OriginScp == <<"g", "i", "t", "@", "g", "i", "t", "h", "u", "b", ".", "c", "o", "m", ":", "o", "/", "r", ".", "g", "i", "t">>
OriginLocal == <<"/", "s", "r", "v", "/", "r", ".", "g", "i", "t">>
Origins == {OriginHttps, OriginScp, OriginLocal}

\* normalizeForkPath: by the origin when there is one, else by the local path
normalizeForkPath(repo, origin) ==
  IF origin = None
  THEN [ok |-> TRUE, e |-> Expand(Join(cuRepoPath, repo))]
  ELSE IF ~normalizeGitURL(origin).ok
  THEN [ok |-> FALSE, e |-> None]
  ELSE [ok |-> TRUE, e |-> Expand(Join(cuRepoPath, normalizeGitURL(origin).e))]

MirrorPaths == {normalizeForkPath(SourcePath, o).e : o \in {o \in Origins \cup {None} : normalizeForkPath(SourcePath, o).ok}}

LocalMirror == normalizeForkPath(SourcePath, None).e

Openers == {"o1", "o2"}

\* add: ensureLocalRemote found no container-use remote and runs git remote add
NoOpen ==
  [pc |-> "idle", forkRepoPath |-> None, result |-> "none", cloned |-> FALSE, add |-> FALSE]

----------------------------------------------------------------------------
(* Environments *)

EnvIds == {"web/x", "web/y", "api/y"}
MainBranch == "main"
Branches == {MainBranch} \cup EnvIds

VARIABLES
  commits,      \* the object store shared by source and mirror: commit n is commits[n]
  forkHeads,    \* refs/heads/* of the mirror (forkRepoPath); 0 = no such branch
  forkNotes,    \* refs/notes/container-use-state of the mirror
  userHeads,    \* refs/heads/* of the source repository (userRepoPath)
  userRemotes,  \* refs/remotes/container-use/* of the source repository
  userNotes,    \* refs/notes/container-use-state of the source repository
  userTree,     \* the files of the source repository's working tree
  worktree,     \* per environment ID: does the worktree directory exist, and its files
  container,    \* per environment ID: the files of the container's workdir
  env,          \* per environment ID: the in-memory Environment of the running call
  pc,           \* per environment ID: the position of the call running on it
  call,         \* per environment ID: the running (or last) call and what it did
  result,       \* per environment ID: outcome of the last call
  saved,        \* per environment ID: the History last written by saveState
  lastCommit,   \* per environment ID: what the last commit step saw and staged
  entries,      \* number of History entries recorded so far
  faults,       \* number of subprocess failures so far
  foreign,      \* number of note commits made in the source by another writer
  mirror,       \* per candidate mirror path: what is on disk there
  remotes,      \* the source's remotes: URL of origin and of container-use ("none" = no such remote)
  opener,       \* per caller of Open: position, the forkRepoPath it chose, outcome
  checkout,     \* the source's checkout: the branch HEAD names, and the index
  forkLog,      \* refs/notes/container-use of the mirror
  userLog,      \* refs/notes/container-use of the source repository
  roundTrip,    \* one state note written and read back, byte by byte
  registered,   \* the environment IDs whose worktree the mirror has on record
  sniff,        \* one status line and the file it names, put to the classifier
  listed,       \* the branch names Repository.List was given and what it returned
  named,        \* one name on its way through validateName, Create, Get and Update
  tool          \* one call of an MCP tool handler that wraps Repository.Update

vars == <<commits, forkHeads, forkNotes, userHeads, userRemotes, userNotes, userTree,
          worktree, container, env, pc, call, result, saved, lastCommit, entries, faults, foreign,
          mirror, remotes, opener, checkout, forkLog, userLog, roundTrip,
          registered, sniff, listed, named, tool>>

\* the probes of the pure functions
probes == <<sniff, listed, named, tool>>

\* what Create, Get and Update never write (git worktree add apart)
rest == <<mirror, remotes, opener, checkout, forkLog, userLog, roundTrip,
          registered, sniff, listed, named, tool>>

\* a notes ref: the chain of its notes commits (root first; empty = no ref)
\* and the notes of its tip, a function from annotated commits to Histories
NoNotes == [chain |-> <<>>, map |-> <<>>]

IsPrefix(s, t) == Len(s) <= Len(t) /\ SubSeq(t, 1, Len(s)) = s

\* git fetch of refs/notes/X:refs/notes/X (no "+") is accepted when the
\* destination does not exist or is an ancestor of the source
FastForward(dst, src) == IsPrefix(dst.chain, src.chain)

\* git notes add -f on commit c: a new notes commit on top of the ref
NotesAdd(ref, c, note) ==
  [chain |-> Append(ref.chain, Len(ref.chain) + 1),
   map   |-> [k \in DOMAIN ref.map \cup {c} |-> IF k = c THEN note ELSE ref.map[k]]]

\* git notes append on commit c: a new notes commit, the message added to
\* the note of c
NotesAppend(ref, c, msg) ==
  [chain |-> Append(ref.chain, Len(ref.chain) + 1),
   map   |-> [k \in DOMAIN ref.map \cup {c} |->
                IF k = c THEN (IF c \in DOMAIN ref.map THEN ref.map[c] ELSE <<>>) \o <<msg>>
                ELSE ref.map[k]]]

RECURSIVE Depth(_)
Depth(c) == IF c = 0 THEN 0 ELSE 1 + Depth(commits[c].parent)

InFlight == {e \in EnvIds : pc[e] \notin {"idle", "done"}}

Tree(c) == commits[c].tree

NoCall(propOk) ==
  [op |-> "none", ops |-> <<>>, wtAtEntry |-> FALSE, head0 |-> 0,
   propOk |-> propOk, retry |-> FALSE, committed |-> FALSE,
   rejected |-> FALSE, faulted |-> FALSE, refOld |-> NoNotes, refNew |-> NoNotes]

NewCall(op, e) ==
  [NoCall(call[e].propOk) EXCEPT !.op = op, !.wtAtEntry = worktree[e].exists,
                                 !.head0 = forkHeads[e]]

NoCommit == [status |-> {}, added |-> {}, error |-> FALSE]

Log(e, name) == [call EXCEPT ![e].ops = Append(@, name)]

\* the source repository: HEAD of main tracks archive.tar.gz; the working tree
\* is clean, or holds an untracked app.py, or has archive.tar.gz deleted
NoNote == [has |-> FALSE, bytes |-> <<>>]

NoRoundTrip ==
  [pc |-> "idle", History |-> <<>>, state |-> <<>>, note |-> NoNote,
   loaded |-> <<>>, err |-> FALSE]

SourceHead == [p \in Paths |-> IF p = ArchiveTarGz THEN Text ELSE Absent]

SourceWorkingTrees ==
  {SourceHead,
   [SourceHead EXCEPT ![AppPy] = Text],
   [SourceHead EXCEPT ![ArchiveTarGz] = Absent],
   [SourceHead EXCEPT ![AppPy] = Text, ![ArchiveTarGz] = Absent],
   [SourceHead EXCEPT ![ArchiveTarGz] = Binary]}

InitEnv ==
  /\ commits = <<[parent |-> 0, tree |-> SourceHead]>>
  /\ forkHeads = [b \in Branches |-> IF b = MainBranch THEN 1 ELSE 0]
  /\ forkNotes = NoNotes
  /\ userHeads = [b \in Branches |-> IF b = MainBranch THEN 1 ELSE 0]
  /\ userRemotes = [b \in Branches |-> 0]
  /\ userNotes = NoNotes
  /\ userTree \in SourceWorkingTrees
  /\ worktree = [e \in EnvIds |-> [exists |-> FALSE, files |-> EmptyTree]]
  /\ container = [e \in EnvIds |-> EmptyTree]
  /\ env = [e \in EnvIds |-> [History |-> <<>>]]
  /\ pc = [e \in EnvIds |-> "idle"]
  /\ call = [e \in EnvIds |-> NoCall(FALSE)]
  /\ result = [e \in EnvIds |-> "none"]
  /\ saved = [e \in EnvIds |-> <<>>]
  /\ lastCommit = [e \in EnvIds |-> NoCommit]
  /\ entries = 0
  /\ faults = 0
  /\ foreign = 0
  /\ mirror = [p \in MirrorPaths |-> IF p = LocalMirror THEN "bare" ELSE "absent"]
  /\ remotes = [origin |-> None, cu |-> LocalMirror]
  /\ opener = [o \in Openers |-> NoOpen]
  /\ checkout = [branch |-> MainBranch, index |-> SourceHead]
  /\ forkLog = NoNotes
  /\ userLog = NoNotes
  /\ roundTrip = NoRoundTrip
  /\ registered = {}

Init ==
  /\ InitEnv
  /\ sniff = NoSniff
  /\ listed = NoListed
  /\ named = NoNamed
  /\ tool = NoTool

----------------------------------------------------------------------------
(* How a call ends *)

Finish(e, c) ==
  /\ pc' = [pc EXCEPT ![e] = "done"]
  /\ call' = c
  /\ result' = [result EXCEPT ![e] = "ok"]

Fail(e, c) ==
  /\ pc' = [pc EXCEPT ![e] = "done"]
  /\ call' = c
  /\ result' = [result EXCEPT ![e] = "error"]

Goto(e, label, c) ==
  /\ pc' = [pc EXCEPT ![e] = label]
  /\ call' = c
  /\ UNCHANGED result

\* a subprocess (git, the container export) exits with an error or is
\* cancelled before it had any effect; the call returns the wrapped error
FaultPcs ==
  {"iw_fetch", "iw_push", "iw_add", "iw_apply", "iw_commit", "iw_fetchid", "iw_track",
   "load", "p_export", "p_commit", "p_save", "p_fetch", "n_fetch", "n_delete", "n_retry",
   "s_note", "s_commit", "l_fetch", "l_delete", "l_retry",
   "db_prune", "db_branch", "db_rprune"}

\* variant of Fault: any error of the first fetch of the notes is taken for a
\* rejection, so the ref is deleted and the fetch run again
Fault_AnyErrorRejected(e) ==
  /\ pc[e] \in FaultPcs
  /\ faults < MaxFaults
  /\ faults' = faults + 1
  /\ IF pc[e] = "n_fetch"
     THEN Goto(e, "n_delete", [call EXCEPT ![e].faulted = TRUE])
     ELSE Fail(e, [call EXCEPT ![e].faulted = TRUE])
  /\ UNCHANGED <<commits, forkHeads, forkNotes, userHeads, userRemotes, userNotes, userTree,
                 worktree, container, env, saved, lastCommit, entries, foreign>>
  /\ UNCHANGED rest

Fault(e) ==
  /\ pc[e] \in FaultPcs
  /\ faults < MaxFaults
  /\ faults' = faults + 1
  /\ Fail(e, [call EXCEPT ![e].faulted = TRUE])
  /\ UNCHANGED <<commits, forkHeads, forkNotes, userHeads, userRemotes, userNotes, userTree,
                 worktree, container, env, saved, lastCommit, entries, foreign>>
  /\ UNCHANGED rest

----------------------------------------------------------------------------
(* Repository.Create / Get / Update: entry *)

\* the call returns to its caller, which drops what it knew of the call
Return(e) ==
  /\ pc[e] = "done"
  /\ pc' = [pc EXCEPT ![e] = "idle"]
  /\ call' = [call EXCEPT ![e] = NoCall(call[e].propOk)]
  /\ result' = [result EXCEPT ![e] = "none"]
  /\ lastCommit' = [lastCommit EXCEPT ![e] = NoCommit]
  /\ UNCHANGED <<commits, forkHeads, forkNotes, userHeads, userRemotes, userNotes, userTree,
                 worktree, container, env, saved, entries, faults, foreign>>
  /\ UNCHANGED rest

\* a call starts only while the commits and notes it may add fit the bounds
Room(e, op) ==
  /\ Depth(IF forkHeads[e] # 0 THEN forkHeads[e] ELSE userHeads[MainBranch])
       + (IF worktree[e].exists THEN 0 ELSE 1) + (IF op = "Get" THEN 0 ELSE 1)
       <= MaxCommits
  /\ op # "Get" => Len(forkNotes.chain) + Cardinality(InFlight \ {e}) < MaxNotes

Begin(e, op) ==
  /\ pc[e] = "idle"
  /\ Room(e, op)
  /\ pc' = [pc EXCEPT ![e] = "iw_stat"]
  /\ call' = [call EXCEPT ![e] = NewCall(op, e)]
  /\ result' = [result EXCEPT ![e] = "running"]
  /\ UNCHANGED <<commits, forkHeads, forkNotes, userHeads, userRemotes, userNotes, userTree,
                 worktree, container, env, saved, lastCommit, entries, faults, foreign>>
  /\ UNCHANGED rest

\* Create draws the ID's suffix at random (petname): the ID is a new one
Fresh(e) == forkHeads[e] = 0 /\ ~worktree[e].exists

Create(e) ==
  /\ Fresh(e)
  /\ Begin(e, "Create")

Get(e) ==
  /\ pc[e] = "idle"
  /\ Begin(e, "Get")

Update(e) ==
  /\ pc[e] = "idle"
  /\ Begin(e, "Update")

----------------------------------------------------------------------------
(* Repository.initializeWorktree *)

AfterInit(op) == IF op = "Create" THEN "new" ELSE "load"

\* variant of IwStat without the fast path: every call materializes anew
IwStat_NoFastPath(e) ==
  /\ pc[e] = "iw_stat"
  /\ Goto(e, "iw_fetch", call)
  /\ UNCHANGED <<commits, forkHeads, forkNotes, userHeads, userRemotes, userNotes, userTree,
                 worktree, container, env, saved, lastCommit, entries, faults, foreign>>
  /\ UNCHANGED rest

\* os.Stat(worktreePath): the fast path returns the path at once
IwStat(e) ==
  /\ pc[e] = "iw_stat"
  /\ Goto(e, IF worktree[e].exists THEN AfterInit(call[e].op) ELSE "iw_fetch", call)
  /\ UNCHANGED <<commits, forkHeads, forkNotes, userHeads, userRemotes, userNotes, userTree,
                 worktree, container, env, saved, lastCommit, entries, faults, foreign>>
  /\ UNCHANGED rest

\* git fetch container-use (in the source repository)
IwFetch(e) ==
  /\ pc[e] = "iw_fetch"
  /\ userRemotes' = [b \in Branches |-> IF forkHeads[b] # 0 THEN forkHeads[b] ELSE userRemotes[b]]
  /\ Goto(e, "iw_push", Log(e, "fetch"))
  /\ UNCHANGED <<commits, forkHeads, forkNotes, userHeads, userNotes, userTree,
                 worktree, container, env, saved, lastCommit, entries, faults, foreign>>
  /\ UNCHANGED rest

\* git branch --show-current; git push container-use --force <currentBranch>
IwPush(e) ==
  /\ pc[e] = "iw_push"
  /\ forkHeads' = [forkHeads EXCEPT ![MainBranch] = userHeads[MainBranch]]
  /\ userRemotes' = [userRemotes EXCEPT ![MainBranch] = userHeads[MainBranch]]
  /\ Goto(e, "iw_add", Log(e, "push"))
  /\ UNCHANGED <<commits, forkNotes, userHeads, userNotes, userTree,
                 worktree, container, env, saved, lastCommit, entries, faults, foreign>>
  /\ UNCHANGED rest

\* git worktree add -b is cancelled after it created the branch and before the
\* worktree was checked out: git removes the unfinished directory and its record
IwAddPartial(e) ==
  /\ pc[e] = "iw_add"
  /\ forkHeads[e] = 0
  /\ e \notin registered
  /\ faults < MaxFaults
  /\ faults' = faults + 1
  /\ forkHeads' = [forkHeads EXCEPT ![e] = forkHeads[MainBranch]]
  /\ Fail(e, [Log(e, "worktree add -b") EXCEPT ![e].faulted = TRUE])
  /\ UNCHANGED <<commits, forkNotes, userHeads, userRemotes, userNotes, userTree,
                 worktree, container, env, saved, lastCommit, entries, foreign>>
  /\ UNCHANGED rest

\* variant: the branch is always created anew from the source's current branch
\* (git worktree add -B)
IwAdd_Recreates(e) ==
  /\ pc[e] = "iw_add"
  /\ IF e \in registered
     THEN /\ Fail(e, Log(e, "worktree add"))
          /\ UNCHANGED <<forkHeads, worktree, registered>>
     ELSE /\ forkHeads' = [forkHeads EXCEPT ![e] = forkHeads[MainBranch]]
          /\ worktree' = [worktree EXCEPT ![e] =
                            [exists |-> TRUE, files |-> Tree(forkHeads[MainBranch])]]
          /\ registered' = registered \cup {e}
          /\ Goto(e, "iw_apply", Log(e, "worktree add -b"))
  /\ UNCHANGED <<commits, forkNotes, userHeads, userRemotes, userNotes, userTree,
                 container, env, saved, lastCommit, entries, faults, foreign>>
  /\ UNCHANGED <<mirror, remotes, opener, checkout, forkLog, userLog, roundTrip, probes>>

\* git show-ref refs/heads/<id>; git worktree add [-b <id>] <path> ...; git
\* refuses a path that is missing but still on the mirror's record
IwAdd(e) ==
  /\ pc[e] = "iw_add"
  /\ IF e \in registered
     THEN /\ Fail(e, Log(e, IF forkHeads[e] = 0 THEN "worktree add -b" ELSE "worktree add"))
          /\ UNCHANGED <<forkHeads, worktree, registered>>
     ELSE LET tip == IF forkHeads[e] = 0 THEN forkHeads[MainBranch] ELSE forkHeads[e] IN
            /\ forkHeads' = [forkHeads EXCEPT ![e] = tip]
            /\ worktree' = [worktree EXCEPT ![e] = [exists |-> TRUE, files |-> Tree(tip)]]
            /\ registered' = registered \cup {e}
            /\ Goto(e, "iw_apply",
                    Log(e, IF forkHeads[e] = 0 THEN "worktree add -b" ELSE "worktree add"))
  /\ UNCHANGED <<commits, forkNotes, userHeads, userRemotes, userNotes, userTree,
                 container, env, saved, lastCommit, entries, faults, foreign>>
  /\ UNCHANGED <<mirror, remotes, opener, checkout, forkLog, userLog, roundTrip, probes>>

----------------------------------------------------------------------------
(* Repository.commitWorktreeChanges, run in the worktree of environment e *)

Continue(e, next, c) == IF next = "return" THEN Finish(e, c) ELSE Goto(e, next, c)

\* git commit exits with status 1 when the index holds nothing to commit
GitCommitFails(head, staged) == staged = head

\* variant: git commit --amend, which replaces the tip of the branch
commitWorktreeChanges_Amends(e, next) ==
  LET head   == Tree(forkHeads[e])
      wt     == worktree[e].files
      status == Status(head, wt)
      added  == IF status = {} THEN {} ELSE addNonBinaryFiles(status, wt)
      staged == StagedTree(head, wt, added)
      c      == Log(e, "commit")
  IN
  /\ lastCommit' = [lastCommit EXCEPT ![e] =
        [status |-> status, added |-> added, error |-> FALSE]]
  /\ IF status = {}
     THEN /\ Continue(e, next, c)
          /\ UNCHANGED <<commits, forkHeads>>
     ELSE /\ Len(commits) < MaxCommits
          /\ commits' = Append(commits, [parent |-> commits[forkHeads[e]].parent,
                                         tree |-> staged])
          /\ forkHeads' = [forkHeads EXCEPT ![e] = Len(commits) + 1]
          /\ Continue(e, next, [c EXCEPT ![e].committed = TRUE])

\* variant without the test of the status: git add and git commit always run
commitWorktreeChanges_Always(e, next) ==
  LET head   == Tree(forkHeads[e])
      wt     == worktree[e].files
      status == Status(head, wt)
      added  == addNonBinaryFiles(status, wt)
      staged == StagedTree(head, wt, added)
      c      == Log(e, "commit")
  IN
  /\ lastCommit' = [lastCommit EXCEPT ![e] =
        [status |-> status, added |-> added, error |-> GitCommitFails(head, staged)]]
  /\ IF GitCommitFails(head, staged)
     THEN /\ Fail(e, c)
          /\ UNCHANGED <<commits, forkHeads>>
     ELSE /\ Len(commits) < MaxCommits
          /\ commits' = Append(commits, [parent |-> forkHeads[e], tree |-> staged])
          /\ forkHeads' = [forkHeads EXCEPT ![e] = Len(commits) + 1]
          /\ Continue(e, next, [c EXCEPT ![e].committed = TRUE])

commitWorktreeChanges(e, next) ==
  LET head   == Tree(forkHeads[e])
      wt     == worktree[e].files
      status == Status(head, wt)
      added  == IF status = {} THEN {} ELSE addNonBinaryFiles(status, wt)
      staged == StagedTree(head, wt, added)
      c      == Log(e, "commit")
  IN
  /\ lastCommit' = [lastCommit EXCEPT ![e] =
        [status |-> status, added |-> added,
         error |-> status # {} /\ GitCommitFails(head, staged)]]
  /\ IF status = {}
     THEN /\ Continue(e, next, c)
          /\ UNCHANGED <<commits, forkHeads>>
     ELSE IF GitCommitFails(head, staged)
     THEN /\ Fail(e, c)
          /\ UNCHANGED <<commits, forkHeads>>
     ELSE /\ Len(commits) < MaxCommits
          /\ commits' = Append(commits, [parent |-> forkHeads[e], tree |-> staged])
          /\ forkHeads' = [forkHeads EXCEPT ![e] = Len(commits) + 1]
          /\ Continue(e, next, [c EXCEPT ![e].committed = TRUE])

----------------------------------------------------------------------------
(* Repository.applyUncommittedChanges and the rest of initializeWorktree *)

UserHeadTree == Tree(userHeads[MainBranch])

\* paths of `git diff HEAD` in the source: tracked files modified or deleted
DiffPaths == {p \in Paths : UserHeadTree[p] # Absent /\ userTree[p] # UserHeadTree[p]}

\* paths of `git ls-files --others --exclude-standard`
UntrackedPaths == {p \in Paths : UserHeadTree[p] = Absent /\ userTree[p] # Absent}

\* git apply needs every hunk to match the worktree, and a text diff of
\* binary content ("Binary files differ") cannot be applied
PatchApplies(wt) ==
  \A p \in DiffPaths :
    /\ wt[p] = UserHeadTree[p]
    /\ UserHeadTree[p] # Binary
    /\ userTree[p] # Binary

\* variant: a patch that does not apply is skipped and the creation goes on
IwApply_IgnoresFailure(e) ==
  /\ pc[e] = "iw_apply"
  /\ IF DiffPaths = {} /\ UntrackedPaths = {}
     THEN /\ Goto(e, "iw_fetchid", call)
          /\ UNCHANGED worktree
     ELSE IF ~PatchApplies(worktree[e].files)
     THEN /\ Goto(e, "iw_fetchid", Log(e, "apply"))
          /\ UNCHANGED worktree
     ELSE /\ worktree' = [worktree EXCEPT ![e].files =
                 [p \in Paths |-> IF p \in DiffPaths \cup UntrackedPaths THEN userTree[p] ELSE @[p]]]
          /\ Goto(e, "iw_commit", Log(e, "apply"))
  /\ UNCHANGED <<commits, forkHeads, forkNotes, userHeads, userRemotes, userNotes, userTree,
                 container, env, saved, lastCommit, entries, faults, foreign>>
  /\ UNCHANGED rest

IwApply(e) ==
  /\ pc[e] = "iw_apply"
  /\ IF DiffPaths = {} /\ UntrackedPaths = {}
     THEN /\ Goto(e, "iw_fetchid", call)
          /\ UNCHANGED worktree
     ELSE IF ~PatchApplies(worktree[e].files)
     THEN /\ Fail(e, Log(e, "apply"))
          /\ UNCHANGED worktree
     ELSE /\ worktree' = [worktree EXCEPT ![e].files =
                 [p \in Paths |-> IF p \in DiffPaths \cup UntrackedPaths THEN userTree[p] ELSE @[p]]]
          /\ Goto(e, "iw_commit", Log(e, "apply"))
  /\ UNCHANGED <<commits, forkHeads, forkNotes, userHeads, userRemotes, userNotes, userTree,
                 container, env, saved, lastCommit, entries, faults, foreign>>
  /\ UNCHANGED rest

IwCommit(e) ==
  /\ pc[e] = "iw_commit"
  /\ commitWorktreeChanges(e, "iw_fetchid")
  /\ UNCHANGED <<forkNotes, userHeads, userRemotes, userNotes, userTree,
                 worktree, container, env, saved, entries, faults, foreign>>
  /\ UNCHANGED rest

\* git fetch container-use <id>
IwFetchId(e) ==
  /\ pc[e] = "iw_fetchid"
  /\ userRemotes' = [userRemotes EXCEPT ![e] = forkHeads[e]]
  /\ Goto(e, "iw_track", Log(e, "fetch id"))
  /\ UNCHANGED <<commits, forkHeads, forkNotes, userHeads, userNotes, userTree,
                 worktree, container, env, saved, lastCommit, entries, faults, foreign>>
  /\ UNCHANGED rest

\* variant: the branch is created with git checkout -b --track, which moves
\* HEAD of the source repository
IwTrack_ChecksOut(e) ==
  /\ pc[e] = "iw_track"
  /\ IF userHeads[e] = 0
     THEN /\ userHeads' = [userHeads EXCEPT ![e] = userRemotes[e]]
          /\ checkout' = [branch |-> e, index |-> Tree(userRemotes[e])]
          /\ Goto(e, AfterInit(call[e].op), Log(e, "branch --track"))
     ELSE /\ UNCHANGED <<userHeads, checkout>>
          /\ Goto(e, AfterInit(call[e].op), call)
  /\ UNCHANGED <<commits, forkHeads, forkNotes, userRemotes, userNotes, userTree,
                 worktree, container, env, saved, lastCommit, entries, faults, foreign>>
  /\ UNCHANGED <<mirror, remotes, opener, forkLog, userLog, roundTrip, registered, probes>>

\* variant: the local branch is never created
IwTrack_NoBranch(e) ==
  /\ pc[e] = "iw_track"
  /\ UNCHANGED userHeads
  /\ Goto(e, AfterInit(call[e].op), call)
  /\ UNCHANGED <<commits, forkHeads, forkNotes, userRemotes, userNotes, userTree,
                 worktree, container, env, saved, lastCommit, entries, faults, foreign>>
  /\ UNCHANGED rest

\* git show-ref refs/heads/<id>; git branch --track <id> container-use/<id>
IwTrack(e) ==
  /\ pc[e] = "iw_track"
  /\ IF userHeads[e] = 0
     THEN /\ userHeads' = [userHeads EXCEPT ![e] = userRemotes[e]]
          /\ Goto(e, AfterInit(call[e].op), Log(e, "branch --track"))
     ELSE /\ UNCHANGED userHeads
          /\ Goto(e, AfterInit(call[e].op), call)
  /\ UNCHANGED <<commits, forkHeads, forkNotes, userRemotes, userNotes, userTree,
                 worktree, container, env, saved, lastCommit, entries, faults, foreign>>
  /\ UNCHANGED rest

----------------------------------------------------------------------------
(* The in-memory Environment: environment.New, loadState + environment.Load, *)
(* and the caller's mutation of Update                                       *)

ContainerOf(files) == [p \in Paths |-> IF p = ConfigFile THEN Absent ELSE files[p]]

New(e) ==
  /\ pc[e] = "new"
  /\ env' = [env EXCEPT ![e] = [History |-> <<>>]]
  /\ container' = [container EXCEPT ![e] = ContainerOf(worktree[e].files)]
  /\ Goto(e, "p_export", call)
  /\ UNCHANGED <<commits, forkHeads, forkNotes, userHeads, userRemotes, userNotes, userTree,
                 worktree, saved, lastCommit, entries, faults, foreign>>
  /\ UNCHANGED rest

\* git notes --ref container-use-state show (on HEAD); "no note found" gives nil
loadState(e) ==
  IF forkHeads[e] \in DOMAIN forkNotes.map THEN forkNotes.map[forkHeads[e]] ELSE <<>>

Load(e) ==
  /\ pc[e] = "load"
  /\ env' = [env EXCEPT ![e] = [History |-> loadState(e)]]
  /\ container' = [container EXCEPT ![e] = ContainerOf(worktree[e].files)]
  /\ IF call[e].op = "Get" THEN Finish(e, call) ELSE Goto(e, "mutate", call)
  /\ UNCHANGED <<commits, forkHeads, forkNotes, userHeads, userRemotes, userNotes, userTree,
                 worktree, saved, lastCommit, entries, faults, foreign>>
  /\ UNCHANGED rest

\* fn(ctx, env): the container runs commands that rewrite its workdir, and
\* the action is recorded in History; an empty mutation re-propagates as is
Edits(files) ==
  {t \in UserTrees : Cardinality({p \in Paths : t[p] # files[p]}) = 1}

Mutate(e) ==
  /\ pc[e] = "mutate"
  /\ \/ /\ UNCHANGED <<container, env, entries>>
        /\ Goto(e, "p_export", [call EXCEPT ![e].retry = call[e].propOk])
     \/ /\ entries < MaxEntries
        /\ \E t \in Edits(container[e]) : container' = [container EXCEPT ![e] = t]
        /\ entries' = entries + 1
        /\ env' = [env EXCEPT ![e].History = Append(@, entries + 1)]
        /\ Goto(e, "p_export", call)
  /\ UNCHANGED <<commits, forkHeads, forkNotes, userHeads, userRemotes, userNotes, userTree,
                 worktree, saved, lastCommit, faults, foreign>>
  /\ UNCHANGED rest

\* variant of MutateFails: the error of fn is dropped and Update goes on
MutateFails_Propagates(e) ==
  /\ pc[e] = "mutate"
  /\ Goto(e, "p_export", Log(e, "fn error"))
  /\ UNCHANGED <<commits, forkHeads, forkNotes, userHeads, userRemotes, userNotes, userTree,
                 worktree, container, env, saved, lastCommit, entries, faults, foreign>>
  /\ UNCHANGED rest

\* fn(ctx, env) returns an error: Update returns nil and the error
MutateFails(e) ==
  /\ pc[e] = "mutate"
  /\ Fail(e, Log(e, "fn error"))
  /\ UNCHANGED <<commits, forkHeads, forkNotes, userHeads, userRemotes, userNotes, userTree,
                 worktree, container, env, saved, lastCommit, entries, faults, foreign>>
  /\ UNCHANGED rest

----------------------------------------------------------------------------
(* Repository.propagateToWorktree *)

\* env.Export: the container's workdir replaces the worktree's files (Wipe),
\* then the configuration snapshot is written under .container-use/
Exported(files) == [p \in Paths |-> IF p = ConfigFile THEN Text ELSE files[p]]

PExport(e) ==
  /\ pc[e] = "p_export"
  /\ worktree' = [worktree EXCEPT ![e].files = Exported(container[e])]
  /\ Goto(e, IF call[e].op = "Save" THEN "s_note" ELSE "p_commit",
          [Log(e, "export") EXCEPT ![e].propOk = FALSE, ![e].head0 = forkHeads[e],
                                   ![e].committed = FALSE])
  /\ UNCHANGED <<commits, forkHeads, forkNotes, userHeads, userRemotes, userNotes, userTree,
                 container, env, saved, lastCommit, entries, faults, foreign>>
  /\ UNCHANGED rest

PCommit(e) ==
  /\ pc[e] = "p_commit"
  /\ commitWorktreeChanges(e, "p_save")
  /\ UNCHANGED <<forkNotes, userHeads, userRemotes, userNotes, userTree,
                 worktree, container, env, saved, entries, faults, foreign>>
  /\ UNCHANGED rest

\* Repository.saveState: git notes --ref container-use-state add -f -F <file>
\* in the worktree, which annotates the worktree's HEAD
saveState(e) ==
  /\ forkNotes' = NotesAdd(forkNotes, forkHeads[e], env[e].History)
  /\ saved' = [saved EXCEPT ![e] = env[e].History]

PSave(e) ==
  /\ pc[e] = "p_save"
  /\ saveState(e)
  /\ Goto(e, "p_fetch", Log(e, "save state"))
  /\ UNCHANGED <<commits, forkHeads, userHeads, userRemotes, userNotes, userTree,
                 worktree, container, env, lastCommit, entries, faults, foreign>>
  /\ UNCHANGED rest

\* git fetch container-use <id> (in the source repository)
\* variant: the environment branch is not fetched after the commit
PFetch_Skipped(e) ==
  /\ pc[e] = "p_fetch"
  /\ UNCHANGED userRemotes
  /\ Goto(e, "n_fetch", Log(e, "fetch id"))
  /\ UNCHANGED <<commits, forkHeads, forkNotes, userHeads, userNotes, userTree,
                 worktree, container, env, saved, lastCommit, entries, faults, foreign>>
  /\ UNCHANGED rest

PFetch(e) ==
  /\ pc[e] = "p_fetch"
  /\ userRemotes' = [userRemotes EXCEPT ![e] = forkHeads[e]]
  /\ Goto(e, "n_fetch", Log(e, "fetch id"))
  /\ UNCHANGED <<commits, forkHeads, forkNotes, userHeads, userNotes, userTree,
                 worktree, container, env, saved, lastCommit, entries, faults, foreign>>
  /\ UNCHANGED rest

----------------------------------------------------------------------------
(* Repository.propagateGitNotes(gitNotesStateRef) *)

\* first fetch of refs/notes/container-use-state:refs/notes/container-use-state
NFetch(e) ==
  /\ pc[e] = "n_fetch"
  /\ IF FastForward(userNotes, forkNotes)
     THEN /\ userNotes' = forkNotes
          /\ Finish(e, [Log(e, "fetch state notes") EXCEPT ![e].propOk = TRUE])
     ELSE /\ UNCHANGED userNotes
          /\ Goto(e, "n_delete", [Log(e, "fetch state notes") EXCEPT ![e].rejected = TRUE])
  /\ UNCHANGED <<commits, forkHeads, forkNotes, userHeads, userRemotes, userTree,
                 worktree, container, env, saved, lastCommit, entries, faults, foreign>>
  /\ UNCHANGED rest

\* variant of NDelete that retries without deleting the source's ref
NDelete_KeepsRef(e) ==
  /\ pc[e] = "n_delete"
  /\ UNCHANGED userNotes
  /\ Goto(e, "n_retry", Log(e, "update-ref -d"))
  /\ UNCHANGED <<commits, forkHeads, forkNotes, userHeads, userRemotes, userTree,
                 worktree, container, env, saved, lastCommit, entries, faults, foreign>>
  /\ UNCHANGED rest

\* on "[rejected]": git update-ref -d refs/notes/container-use-state
NDelete(e) ==
  /\ pc[e] = "n_delete"
  /\ userNotes' = NoNotes
  /\ Goto(e, "n_retry", Log(e, "update-ref -d"))
  /\ UNCHANGED <<commits, forkHeads, forkNotes, userHeads, userRemotes, userTree,
                 worktree, container, env, saved, lastCommit, entries, faults, foreign>>
  /\ UNCHANGED rest

\* the one retry of the fetch; its error, if any, is the call's error
NRetry(e) ==
  /\ pc[e] = "n_retry"
  /\ IF FastForward(userNotes, forkNotes)
     THEN /\ userNotes' = forkNotes
          /\ Finish(e, [Log(e, "fetch state notes") EXCEPT ![e].propOk = TRUE])
     ELSE /\ UNCHANGED userNotes
          /\ Fail(e, Log(e, "fetch state notes"))
  /\ UNCHANGED <<commits, forkHeads, forkNotes, userHeads, userRemotes, userTree,
                 worktree, container, env, saved, lastCommit, entries, faults, foreign>>
  /\ UNCHANGED rest

\* the source's copy of the note ref is advanced by a writer other than
\* propagateGitNotes, between two calls, so that it is no ancestor of the mirror's
ForeignNoteWrite ==
  /\ \A e \in EnvIds : pc[e] = "idle"
  /\ foreign < MaxForeign
  /\ userNotes.chain # <<>>
  /\ foreign' = foreign + 1
  /\ userNotes' = [userNotes EXCEPT !.chain = Append(@, -(foreign + 1))]
  /\ UNCHANGED <<commits, forkHeads, forkNotes, userHeads, userRemotes, userTree,
                 worktree, container, env, pc, call, result, saved, lastCommit, entries, faults>>
  /\ UNCHANGED rest

----------------------------------------------------------------------------
(* LocalRemote.Save: export, state note, then commit *)

Save(e) ==
  /\ pc[e] = "idle"
  /\ worktree[e].exists
  /\ worktree[e].files[ConfigFile] # Absent
  /\ Room(e, "Save")
  /\ pc' = [pc EXCEPT ![e] = "mutate"]
  /\ call' = [call EXCEPT ![e] = NewCall("Save", e)]
  /\ result' = [result EXCEPT ![e] = "running"]
  /\ UNCHANGED <<commits, forkHeads, forkNotes, userHeads, userRemotes, userNotes, userTree,
                 worktree, container, env, saved, lastCommit, entries, faults, foreign>>
  /\ UNCHANGED rest

\* storage.commitStateToNotes
SNote(e) ==
  /\ pc[e] = "s_note"
  /\ saveState(e)
  /\ Goto(e, "s_commit", Log(e, "save state"))
  /\ UNCHANGED <<commits, forkHeads, userHeads, userRemotes, userNotes, userTree,
                 worktree, container, env, lastCommit, entries, faults, foreign>>
  /\ UNCHANGED rest

\* storage.commitChanges
SCommit(e) ==
  /\ pc[e] = "s_commit"
  /\ commitWorktreeChanges(e, "return")
  /\ UNCHANGED <<forkNotes, userHeads, userRemotes, userNotes, userTree,
                 worktree, container, env, saved, entries, faults, foreign>>
  /\ UNCHANGED rest

----------------------------------------------------------------------------
(* Repository.addGitNote: the log note of a step the function of Update ran, *)
(* appended in the worktree and propagated at once                          *)

\* what addGitNote never writes
logRest == <<commits, forkHeads, forkNotes, userHeads, userRemotes, userNotes, userTree,
             worktree, container, env, saved, lastCommit, entries,
             mirror, remotes, opener, checkout, roundTrip, registered, probes>>

\* git notes --ref container-use append -m note
LAppend(e) ==
  /\ pc[e] = "mutate"
  /\ Len(forkLog.chain) < MaxNotes
  /\ forkLog' = NotesAppend(forkLog, forkHeads[e], Len(forkLog.chain) + 1)
  /\ Goto(e, "l_fetch", Log(e, "append log note"))
  /\ UNCHANGED <<userLog, faults, foreign>>
  /\ UNCHANGED logRest

\* propagateGitNotes(gitNotesLogRef): first fetch
LFetch(e) ==
  /\ pc[e] = "l_fetch"
  /\ IF FastForward(userLog, forkLog)
     THEN /\ userLog' = forkLog
          /\ Goto(e, "mutate", Log(e, "fetch log notes"))
     ELSE /\ UNCHANGED userLog
          /\ Goto(e, "l_delete", Log(e, "fetch log notes"))
  /\ UNCHANGED <<forkLog, faults, foreign>>
  /\ UNCHANGED logRest

\* on "[rejected]": git update-ref -d refs/notes/container-use
LDelete(e) ==
  /\ pc[e] = "l_delete"
  /\ userLog' = NoNotes
  /\ Goto(e, "l_retry", Log(e, "update-ref -d"))
  /\ UNCHANGED <<forkLog, faults, foreign>>
  /\ UNCHANGED logRest

LRetry(e) ==
  /\ pc[e] = "l_retry"
  /\ IF FastForward(userLog, forkLog)
     THEN /\ userLog' = forkLog
          /\ Goto(e, "mutate", Log(e, "fetch log notes"))
     ELSE /\ UNCHANGED userLog
          /\ Fail(e, Log(e, "fetch log notes"))
  /\ UNCHANGED <<forkLog, faults, foreign>>
  /\ UNCHANGED logRest

\* the source's copy of the log ref is advanced by another writer
ForeignLogWrite ==
  /\ \A e \in EnvIds : pc[e] = "idle"
  /\ foreign < MaxForeign
  /\ userLog.chain # <<>>
  /\ foreign' = foreign + 1
  /\ userLog' = [userLog EXCEPT !.chain = Append(@, -(foreign + 1))]
  /\ UNCHANGED <<forkLog, faults, pc, call, result>>
  /\ UNCHANGED logRest

----------------------------------------------------------------------------
(* Open: getContainerUseRemote / normalizeForkPath, ensureFork, ensureLocalRemote *)

\* everything of the repository model that Open leaves alone
envVars == <<commits, forkNotes, userHeads, userRemotes, userNotes, userTree,
             worktree, container, env, pc, call, result, saved, lastCommit, entries, foreign,
             checkout, forkLog, userLog, roundTrip, registered, probes>>

OGoto(o, label) == opener' = [opener EXCEPT ![o].pc = label]

OFinish(o) == opener' = [opener EXCEPT ![o].pc = "done", ![o].result = "ok"]

OFail(o) == opener' = [opener EXCEPT ![o].pc = "done", ![o].result = "error"]

Open(o) ==
  /\ opener[o].pc = "idle"
  /\ \A e \in EnvIds : pc[e] = "idle"
  /\ opener' = [opener EXCEPT ![o] = [NoOpen EXCEPT !.pc = "o_geturl"]]
  /\ UNCHANGED <<mirror, remotes, forkHeads, faults>>
  /\ UNCHANGED envVars

\* getContainerUseRemote: an existing container-use remote names the mirror
OGetUrl(o) ==
  /\ opener[o].pc = "o_geturl"
  /\ IF remotes.cu # None
     THEN opener' = [opener EXCEPT ![o].pc = "o_stat", ![o].forkRepoPath = remotes.cu]
     ELSE OGoto(o, "o_normalize")
  /\ UNCHANGED <<mirror, remotes, forkHeads, faults>>
  /\ UNCHANGED envVars

\* normalizeForkPath: git remote get-url origin
ONormalize(o) ==
  /\ opener[o].pc = "o_normalize"
  /\ LET path == normalizeForkPath(SourcePath, remotes.origin)
     IN IF path.ok
        THEN opener' = [opener EXCEPT ![o].pc = "o_stat", ![o].forkRepoPath = path.e]
        ELSE OFail(o)
  /\ UNCHANGED <<mirror, remotes, forkHeads, faults>>
  /\ UNCHANGED envVars

\* ensureFork: os.Stat of the mirror path
OStat(o) ==
  /\ opener[o].pc = "o_stat"
  /\ IF mirror[opener[o].forkRepoPath] # "absent"
     THEN OGoto(o, "o_remote")
     ELSE OGoto(o, "o_mkdir")
  /\ UNCHANGED <<mirror, remotes, forkHeads, faults>>
  /\ UNCHANGED envVars

\* ensureFork: os.MkdirAll
OMkdir(o) ==
  /\ opener[o].pc = "o_mkdir"
  /\ mirror' = [mirror EXCEPT ![opener[o].forkRepoPath] = IF @ = "absent" THEN "empty" ELSE @]
  /\ OGoto(o, "o_clone")
  /\ UNCHANGED <<remotes, forkHeads, faults>>
  /\ UNCHANGED envVars

\* ensureFork: git clone --bare into the directory, which must be empty
OClone(o) ==
  /\ opener[o].pc = "o_clone"
  /\ IF mirror[opener[o].forkRepoPath] = "empty"
     THEN /\ mirror' = [mirror EXCEPT ![opener[o].forkRepoPath] = "bare"]
          /\ forkHeads' = userHeads
          /\ opener' = [opener EXCEPT ![o].pc = "o_remote", ![o].cloned = TRUE]
     ELSE /\ OFail(o)
          /\ UNCHANGED <<mirror, forkHeads>>
  /\ UNCHANGED <<remotes, faults>>
  /\ UNCHANGED envVars

\* the clone exits with an error (git removes what it wrote and keeps the
\* directory it did not create) or is killed by the cancelled context (what
\* it wrote so far stays)
OCloneFails(o) ==
  /\ opener[o].pc = "o_clone"
  /\ faults < MaxFaults
  /\ faults' = faults + 1
  /\ \E left \in {"empty", "partial"} :
       mirror' = [mirror EXCEPT ![opener[o].forkRepoPath] = left]
  /\ OFail(o)
  /\ UNCHANGED <<remotes, forkHeads>>
  /\ UNCHANGED envVars

\* ensureLocalRemote: git remote get-url container-use
ORemote(o) ==
  /\ opener[o].pc = "o_remote"
  /\ IF remotes.cu = opener[o].forkRepoPath
     THEN OFinish(o)
     ELSE opener' = [opener EXCEPT ![o].pc = "o_bind", ![o].add = (remotes.cu = None)]
  /\ UNCHANGED <<mirror, remotes, forkHeads, faults>>
  /\ UNCHANGED envVars

\* ensureLocalRemote: git remote add (which fails when the remote exists),
\* or git remote set-url when the remote named another path
OBind(o) ==
  /\ opener[o].pc = "o_bind"
  /\ IF opener[o].add /\ remotes.cu # None
     THEN /\ OFail(o)
          /\ UNCHANGED remotes
     ELSE /\ remotes' = [remotes EXCEPT !.cu = opener[o].forkRepoPath]
          /\ OFinish(o)
  /\ UNCHANGED <<mirror, forkHeads, faults>>
  /\ UNCHANGED envVars

\* a git subprocess of Open other than the clone fails: nothing is written
OFault(o) ==
  /\ opener[o].pc \in {"o_geturl", "o_normalize", "o_remote", "o_bind"}
  /\ faults < MaxFaults
  /\ faults' = faults + 1
  /\ OFail(o)
  /\ UNCHANGED <<mirror, remotes, forkHeads>>
  /\ UNCHANGED envVars

OReturn(o) ==
  /\ opener[o].pc = "done"
  /\ opener' = [opener EXCEPT ![o] = NoOpen]
  /\ UNCHANGED <<mirror, remotes, forkHeads, faults>>
  /\ UNCHANGED envVars

\* the user gives the source repository an origin, or another one
SetOrigin ==
  /\ \A o \in Openers : opener[o].pc = "idle"
  /\ \E url \in Origins \ {remotes.origin} : remotes' = [remotes EXCEPT !.origin = url]
  /\ UNCHANGED <<mirror, opener, forkHeads, faults>>
  /\ UNCHANGED envVars

\* a source repository that was never opened: no mirror, no container-use remote
InitOpen ==
  /\ commits = <<[parent |-> 0, tree |-> SourceHead]>>
  /\ forkHeads = [b \in Branches |-> 0]
  /\ forkNotes = NoNotes
  /\ userHeads = [b \in Branches |-> IF b = MainBranch THEN 1 ELSE 0]
  /\ userRemotes = [b \in Branches |-> 0]
  /\ userNotes = NoNotes
  /\ userTree \in SourceWorkingTrees
  /\ worktree = [e \in EnvIds |-> [exists |-> FALSE, files |-> EmptyTree]]
  /\ container = [e \in EnvIds |-> EmptyTree]
  /\ env = [e \in EnvIds |-> [History |-> <<>>]]
  /\ pc = [e \in EnvIds |-> "idle"]
  /\ call = [e \in EnvIds |-> NoCall(FALSE)]
  /\ result = [e \in EnvIds |-> "none"]
  /\ saved = [e \in EnvIds |-> <<>>]
  /\ lastCommit = [e \in EnvIds |-> NoCommit]
  /\ entries = 0
  /\ faults = 0
  /\ foreign = 0
  /\ mirror = [p \in MirrorPaths |-> "absent"]
  /\ remotes \in [origin : Origins \cup {None}, cu : {None}]
  /\ opener = [o \in Openers |-> NoOpen]
  /\ checkout = [branch |-> MainBranch, index |-> SourceHead]
  /\ forkLog = NoNotes
  /\ userLog = NoNotes
  /\ roundTrip = NoRoundTrip
  /\ registered = {}
  /\ sniff = NoSniff
  /\ listed = NoListed
  /\ named = NoNamed
  /\ tool = NoTool

----------------------------------------------------------------------------
(* The classifier put to one status line and one file *)

\* what the probe never writes
sniffRest == <<commits, forkHeads, forkNotes, userHeads, userRemotes, userNotes, userTree,
               worktree, container, env, saved, lastCommit, entries, faults, foreign,
               pc, call, result, mirror, remotes, opener, checkout, forkLog, userLog,
               roundTrip, registered, listed, named, tool>>

\* addNonBinaryFiles meets the status line
Classify ==
  /\ sniff.pc = "idle"
  /\ sniff' = [sniff EXCEPT !.pc = "done",
                            !.binary = isBinaryFileOf(sniff.file),
                            !.err = addNonBinaryFilesErr(sniff.line, sniff.walk),
                            !.added = IF addNonBinaryFilesErr(sniff.line, sniff.walk) THEN {}
                                      ELSE addLineOf(sniff.line, sniff.rel, sniff.file)]
  /\ UNCHANGED sniffRest

InitSniff ==
  /\ InitEnv
  /\ userTree = SourceHead
  /\ listed = NoListed
  /\ named = NoNamed
  /\ tool = NoTool
  /\ sniff \in {p \in Probes : ~(Deleted(p.line) /\ p.file.exists)}

----------------------------------------------------------------------------
(* The bytes of the state note: json.MarshalIndent of the History, git notes *)
(* add -f -F (which cleans the message as git stripspace does), git notes   *)
(* show, json.Unmarshal                                                     *)

NL == "\n"
SP == " "

Digits == <<"1", "2", "3", "4", "5", "6", "7", "8", "9">>

\* the Histories the round trip is tried on
Histories ==
  UNION {[1..n -> 1..(MaxEntries + 1)] : n \in 0..(MaxEntries + 1)}

\* json.MarshalIndent(History, "", "  "): a nil slice is null; the elements one
\* per line, indented by two spaces (an entry is written as its number)
RECURSIVE MarshalElems(_)
MarshalElems(h) ==
  IF h = <<>> THEN <<>>
  ELSE <<SP, SP, Digits[Head(h)]>>
         \o (IF Tail(h) = <<>> THEN <<>> ELSE <<",">>)
         \o <<NL>> \o MarshalElems(Tail(h))

MarshalIndent(h) ==
  IF h = <<>> THEN <<"n", "u", "l", "l">>
  ELSE <<"[", NL>> \o MarshalElems(h) \o <<"]">>

\* the lines of a buffer; the last one need not be terminated
RECURSIVE SplitLines(_)
SplitLines(b) ==
  IF b = <<>> THEN <<>>
  ELSE LET i == IndexOf(b, <<NL>>)
       IN IF i = 0 THEN <<b>>
          ELSE <<SubSeq(b, 1, i - 1)>> \o SplitLines(From(b, i + 1))

RECURSIVE TrimRight(_)
TrimRight(l) ==
  IF l # <<>> /\ l[Len(l)] = SP THEN TrimRight(SubSeq(l, 1, Len(l) - 1)) ELSE l

\* empty lines at the start are dropped, runs of empty lines become one
RECURSIVE Collapse(_, _)
Collapse(ls, prevEmpty) ==
  IF ls = <<>> THEN <<>>
  ELSE IF Head(ls) = <<>>
       THEN (IF prevEmpty THEN <<>> ELSE <<Head(ls)>>) \o Collapse(Tail(ls), TRUE)
       ELSE <<Head(ls)>> \o Collapse(Tail(ls), FALSE)

DropLastEmpty(ls) ==
  IF ls # <<>> /\ ls[Len(ls)] = <<>> THEN SubSeq(ls, 1, Len(ls) - 1) ELSE ls

RECURSIVE Terminated(_)
Terminated(ls) ==
  IF ls = <<>> THEN <<>> ELSE Head(ls) \o <<NL>> \o Terminated(Tail(ls))

\* variant: the message is stored as it was written
Stripspace_Verbatim(b) == b

\* the cleaning git notes add applies to the message: trailing blanks of a
\* line removed, empty lines at both ends dropped, every line terminated
Stripspace(b) ==
  Terminated(DropLastEmpty(Collapse(
    [i \in 1..Len(SplitLines(b)) |-> TrimRight(SplitLines(b)[i])], TRUE)))

\* json.Unmarshal into a History: white space between tokens is skipped
RECURSIVE Compact(_)
Compact(b) ==
  IF b = <<>> THEN <<>>
  ELSE (IF Head(b) \in {SP, NL} THEN <<>> ELSE <<Head(b)>>) \o Compact(Tail(b))

DigitValue(c) == CHOOSE n \in 1..Len(Digits) : Digits[n] = c

IsDigit(c) == \E n \in 1..Len(Digits) : Digits[n] = c

\* the elements between the brackets: digit (, digit)*
RECURSIVE ParseElems(_)
ParseElems(t) ==
  IF t = <<>> \/ ~IsDigit(Head(t)) THEN [ok |-> FALSE, v |-> <<>>]
  ELSE IF Len(t) = 1 THEN [ok |-> TRUE, v |-> <<DigitValue(t[1])>>]
  ELSE IF t[2] # "," THEN [ok |-> FALSE, v |-> <<>>]
  ELSE LET r == ParseElems(From(t, 3))
       IN [ok |-> r.ok, v |-> IF r.ok THEN <<DigitValue(t[1])>> \o r.v ELSE <<>>]

Unmarshal(b) ==
  LET t == Compact(b)
  IN IF t = <<"n", "u", "l", "l">> THEN [ok |-> TRUE, v |-> <<>>]
     ELSE IF Len(t) >= 2 /\ t[1] = "[" /\ t[Len(t)] = "]"
          THEN (IF Len(t) = 2 THEN [ok |-> TRUE, v |-> <<>>]
                ELSE ParseElems(SubSeq(t, 2, Len(t) - 1)))
          ELSE [ok |-> FALSE, v |-> <<>>]

\* what the round trip never writes
noteRest == <<commits, forkHeads, forkNotes, userHeads, userRemotes, userNotes, userTree,
              worktree, container, env, saved, lastCommit, entries, faults, foreign,
              pc, call, result, mirror, remotes, opener, checkout, forkLog, userLog,
              registered, probes>>

\* saveState: the serialized History is written to the temporary file
RtState ==
  /\ roundTrip.pc = "idle"
  /\ roundTrip' = [roundTrip EXCEPT !.pc = "state", !.state = MarshalIndent(roundTrip.History)]
  /\ UNCHANGED noteRest

\* git notes --ref container-use-state add -f -F <file>; a message that is
\* empty after the cleaning removes the note
RtSave ==
  /\ roundTrip.pc = "state"
  /\ roundTrip' = [roundTrip EXCEPT
                     !.pc = "saved",
                     !.note = IF Stripspace(roundTrip.state) = <<>> THEN NoNote
                              ELSE [has |-> TRUE, bytes |-> Stripspace(roundTrip.state)]]
  /\ UNCHANGED noteRest

\* loadState: git notes show; "no note found" gives nil, nil
RtLoad ==
  /\ roundTrip.pc \in {"idle", "saved"}
  /\ roundTrip' = [roundTrip EXCEPT
                     !.pc = "loaded",
                     !.loaded = IF roundTrip.note.has THEN roundTrip.note.bytes ELSE <<>>,
                     !.err = FALSE]
  /\ UNCHANGED noteRest

\* the caller records one more entry and saves again on the same commit, or it
\* starts over on a commit that has no note
RtNext ==
  /\ roundTrip.pc = "loaded"
  /\ \/ \E h \in Histories :
          /\ Len(h) = Len(roundTrip.History) + 1
          /\ SubSeq(h, 1, Len(roundTrip.History)) = roundTrip.History
          /\ roundTrip' = [NoRoundTrip EXCEPT !.History = h, !.note = roundTrip.note]
     \/ roundTrip' = [NoRoundTrip EXCEPT !.History = roundTrip.History]
  /\ UNCHANGED noteRest

InitNote ==
  /\ Init
  /\ userTree = SourceHead

----------------------------------------------------------------------------
(* Repository.List: git branch --format %(refname:short) in the mirror, and *)
(* the filter on the printed names                                          *)

BranchApiY == <<"a","p","i","/","y">>
BranchDev == <<"d","e","v">>
BranchFeature == <<"f","e","a","t","u","r","e","/","l","o","g","i","n">>
BranchMain == <<"m","a","i","n">>
BranchWebX == <<"w","e","b","/","x">>
BranchWebY == <<"w","e","b","/","y">>

\* the branch names a mirror may hold, in the order git prints them
AllBranchNames == <<BranchApiY, BranchDev, BranchFeature, BranchMain, BranchWebX, BranchWebY>>

\* the sorted list of a set of indices of AllBranchNames
RECURSIVE Pick(_, _)
Pick(idx, i) ==
  IF i > Len(AllBranchNames) THEN <<>>
  ELSE (IF i \in idx THEN <<AllBranchNames[i]>> ELSE <<>>) \o Pick(idx, i + 1)

BranchLists == {Pick(idx, 1) : idx \in SUBSET (1..Len(AllBranchNames))}

\* strings.Split(s, "\n"): the pieces between the separators, empty ones kept
RECURSIVE Split(_)
Split(b) ==
  LET i == IndexOf(b, <<NL>>)
  IN IF i = 0 THEN <<b>> ELSE <<SubSeq(b, 1, i - 1)>> \o Split(From(b, i + 1))

IsSpace(c) == c \in {SP, NL, "\t", "\r"}

RECURSIVE TrimLeft(_)
TrimLeft(l) == IF l # <<>> /\ IsSpace(Head(l)) THEN TrimLeft(Tail(l)) ELSE l

RECURSIVE TrimRightSpace(_)
TrimRightSpace(l) ==
  IF l # <<>> /\ IsSpace(l[Len(l)]) THEN TrimRightSpace(SubSeq(l, 1, Len(l) - 1)) ELSE l

\* strings.TrimSpace
TrimSpace(l) == TrimRightSpace(TrimLeft(l))

\* what git prints: one short name per line
BranchOutput(names) == Terminated(names)

\* variant: every printed line is taken as an environment
List_NoFilter(out) ==
  SelectSeq([i \in 1..Len(Split(out)) |-> TrimSpace(Split(out)[i])], LAMBDA b : b # <<>>)

\* the loop of List over the lines of the output
List(out) ==
  SelectSeq([i \in 1..Len(Split(out)) |-> TrimSpace(Split(out)[i])],
            LAMBDA b : Contains(b, Slash))

\* what List never writes
listRest == <<commits, forkHeads, forkNotes, userHeads, userRemotes, userNotes, userTree,
              worktree, container, env, saved, lastCommit, entries, faults, foreign,
              pc, call, result, mirror, remotes, opener, checkout, forkLog, userLog,
              roundTrip, registered, sniff, named, tool>>

\* git branch --format exits with 0
ListBranches ==
  /\ listed.pc = "idle"
  /\ listed' = [listed EXCEPT !.pc = "out", !.out = BranchOutput(listed.branches)]
  /\ UNCHANGED listRest

\* git branch --format fails: List returns nil and the error
ListFails ==
  /\ listed.pc = "idle"
  /\ listed' = [listed EXCEPT !.pc = "done", !.err = TRUE]
  /\ UNCHANGED listRest

ListFilter ==
  /\ listed.pc = "out"
  /\ listed' = [listed EXCEPT !.pc = "done", !.envs = List(listed.out)]
  /\ UNCHANGED listRest

InitList ==
  /\ InitEnv
  /\ userTree = SourceHead
  /\ sniff = NoSniff
  /\ named = NoNamed
  /\ tool = NoTool
  /\ listed \in {[NoListed EXCEPT !.branches = l] : l \in BranchLists}

----------------------------------------------------------------------------
(* Names, IDs and commit titles: validateName, Repository.Create, Get and   *)
(* Update on the characters of one name                                     *)

NameChars == {"a", "-", ".", "/", "_", " "}

Names == UNION {[1..n -> NameChars] : n \in 0..MaxNameLen}

invalidChars ==
  {<<"~">>, <<"^">>, <<":">>, <<"?">>, <<"*">>, <<"[">>, <<"\\">>, <<"/">>, <<"\"">>,
   <<"<">>, <<">">>, <<"|">>, <<"@">>, <<"{">>, <<"}">>, <<".", ".">>, <<"\t">>, <<"\n">>,
   <<"\r">>}

DotLock == <<".", "l", "o", "c", "k">>

nameLimit == 100

HasPrefix(s, pre) == Len(pre) <= Len(s) /\ SubSeq(s, 1, Len(pre)) = pre

\* variant of validateName that lets "/" through
validateName_AllowsSlash(name) ==
  /\ name # <<>>
  /\ ~Contains(name, <<" ">>)
  /\ ~Contains(name, <<"_">>)
  /\ \A c \in invalidChars \ {<<"/">>} : ~Contains(name, c)
  /\ ~(HasPrefix(name, <<"-">>) \/ HasSuffix(name, <<"-">>)
       \/ HasPrefix(name, <<".">>) \/ HasSuffix(name, <<".">>))
  /\ ~HasSuffix(name, DotLock)
  /\ Len(name) <= nameLimit

\* TRUE when validateName returns nil
validateName(name) ==
  /\ name # <<>>
  /\ ~Contains(name, <<" ">>)
  /\ ~Contains(name, <<"_">>)
  /\ \A c \in invalidChars : ~Contains(name, c)
  /\ ~(HasPrefix(name, <<"-">>) \/ HasSuffix(name, <<"-">>)
       \/ HasPrefix(name, <<".">>) \/ HasSuffix(name, <<".">>))
  /\ ~HasSuffix(name, DotLock)
  /\ Len(name) <= nameLimit

\* petname.Generate(2, "-"): two words joined by a hyphen
Suffixes == {<<"x", "-", "y">>, <<"a", "-", "a">>}

\* fmt.Sprintf("%s/%s", name, petname.Generate(2, "-"))
CreateID(name, suffix) == name \o Slash \o suffix

\* strings.Cut(id, "/"): what stands before the first separator, or all of it
CutBefore(id, sep) ==
  LET i == IndexOf(id, sep)
  IN IF i = 0 THEN id ELSE SubSeq(id, 1, i - 1)

UpdateEnv == <<"U", "p", "d", "a", "t", "e", " ", "e", "n", "v", " ">>

\* the titles Update is called with: the one the MCP tools build, and another
Titles(id) == {UpdateEnv \o id, <<"R", "u", "n">>}

Explanations == {<<>>, <<"w", "h", "y">>}

\* fmt.Sprintf("%s\n\n%s", name, explanation)
commitMsg(name, explanation) == name \o <<NL, NL>> \o explanation

nameRest == <<commits, forkHeads, forkNotes, userHeads, userRemotes, userNotes, userTree,
              worktree, container, env, saved, lastCommit, entries, faults, foreign,
              pc, call, result, mirror, remotes, opener, checkout, forkLog, userLog,
              roundTrip, registered, sniff, listed, tool>>

\* the environment_create tool: validateName, and its error
NameValidate ==
  /\ named.pc = "idle"
  /\ named' = [named EXCEPT !.pc = IF validateName(named.name) THEN "valid" ELSE "rejected"]
  /\ UNCHANGED nameRest

\* Repository.Create builds the ID
NameCreate ==
  /\ named.pc = "valid"
  /\ named' = [named EXCEPT !.pc = "created", !.id = CreateID(named.name, named.suffix)]
  /\ UNCHANGED nameRest

\* Repository.Get: the name handed to environment.Load
NameGet ==
  /\ named.pc = "created"
  /\ named' = [named EXCEPT !.pc = "got", !.got = CutBefore(named.id, Slash)]
  /\ UNCHANGED nameRest

\* Repository.Update(id, operation, explanation, fn): the message of its commit
NameUpdate ==
  /\ named.pc = "got"
  /\ \E title \in Titles(named.id) :
       named' = [named EXCEPT !.pc = "updated", !.title = title,
                              !.message = commitMsg(UpdateEnv \o named.got, named.explanation)]
  /\ UNCHANGED nameRest

InitName ==
  /\ InitEnv
  /\ userTree = SourceHead
  /\ sniff = NoSniff
  /\ listed = NoListed
  /\ tool = NoTool
  /\ named \in {[NoNamed EXCEPT !.name = n, !.suffix = x, !.explanation = w] :
                  n \in Names, x \in Suffixes, w \in Explanations}

----------------------------------------------------------------------------
(* Repository.DeleteWorktree and Repository.DeleteLocalRemoteBranch *)

IdChars == ("web/x" :> BranchWebX) @@ ("web/y" :> BranchWebY) @@ ("api/y" :> BranchApiY)

cuWorktreePath ==
  <<"~", "/", ".", "c", "o", "n", "f", "i", "g", "/", "c", "o", "n", "t", "a", "i", "n", "e", "r",
    "-", "u", "s", "e", "/", "w", "o", "r", "k", "t", "r", "e", "e", "s">>

\* homedir.Expand(cuWorktreePath + "/" + id)
worktreePath(id) == Expand(cuWorktreePath \o Slash \o IdChars[id])

\* filepath.Dir of a clean path: up to its last separator
FilepathDir(path) ==
  LET seps == {i \in 1..Len(path) : path[i] = "/"}
      last == CHOOSE i \in seps : \A j \in seps : j <= i
  IN IF seps = {} THEN <<".">> ELSE IF last = 1 THEN Slash ELSE SubSeq(path, 1, last - 1)

\* the path is the directory or lies below it
Under(path, dir) == path = dir \/ IsPrefix(dir \o Slash, path)

\* os.RemoveAll(filepath.Dir(worktreePath(id)))
DeleteWorktree(e) ==
  /\ pc[e] = "idle"
  /\ worktree[e].exists
  /\ worktree' = [f \in EnvIds |->
                    IF Under(worktreePath(f), FilepathDir(worktreePath(e)))
                    THEN [exists |-> FALSE, files |-> EmptyTree]
                    ELSE worktree[f]]
  /\ UNCHANGED <<commits, forkHeads, forkNotes, userHeads, userRemotes, userNotes, userTree,
                 container, env, pc, call, result, saved, lastCommit, entries, faults, foreign>>
  /\ UNCHANGED rest

deleteRest == <<commits, forkNotes, userHeads, userNotes, userTree, worktree, container, env,
                saved, lastCommit, entries, faults, foreign,
                mirror, remotes, opener, checkout, forkLog, userLog, roundTrip, probes>>

DeleteLocalRemoteBranch(e) ==
  /\ pc[e] = "idle"
  /\ forkHeads[e] # 0
  /\ pc' = [pc EXCEPT ![e] = "db_prune"]
  /\ call' = [call EXCEPT ![e] = NewCall("Delete", e)]
  /\ result' = [result EXCEPT ![e] = "running"]
  /\ UNCHANGED <<forkHeads, userRemotes, registered>>
  /\ UNCHANGED deleteRest

\* git worktree prune: the record of every worktree whose directory is gone
DbPrune(e) ==
  /\ pc[e] = "db_prune"
  /\ registered' = {f \in registered : worktree[f].exists}
  /\ Goto(e, "db_branch", Log(e, "worktree prune"))
  /\ UNCHANGED <<forkHeads, userRemotes>>
  /\ UNCHANGED deleteRest

\* git branch -D <id>, which refuses a branch that a worktree has checked out
DbBranch(e) ==
  /\ pc[e] = "db_branch"
  /\ IF forkHeads[e] = 0 \/ e \in registered
     THEN /\ Fail(e, Log(e, "branch -D"))
          /\ UNCHANGED forkHeads
     ELSE /\ forkHeads' = [forkHeads EXCEPT ![e] = 0]
          /\ Goto(e, "db_rprune", Log(e, "branch -D"))
  /\ UNCHANGED <<userRemotes, registered>>
  /\ UNCHANGED deleteRest

\* git remote prune container-use, in the source repository
DbRemotePrune(e) ==
  /\ pc[e] = "db_rprune"
  /\ userRemotes' = [b \in Branches |-> IF forkHeads[b] = 0 THEN 0 ELSE userRemotes[b]]
  /\ Finish(e, Log(e, "remote prune"))
  /\ UNCHANGED <<forkHeads, registered>>
  /\ UNCHANGED deleteRest

----------------------------------------------------------------------------
(* Specifications *)

Step(e) ==
  \/ Create(e) \/ Get(e) \/ Update(e)
  \/ IwStat(e) \/ IwFetch(e) \/ IwPush(e) \/ IwAdd(e) \/ IwApply(e) \/ IwCommit(e)
  \/ IwFetchId(e) \/ IwTrack(e)
  \/ New(e) \/ Load(e) \/ Mutate(e)
  \/ PExport(e) \/ PCommit(e) \/ PSave(e) \/ PFetch(e)
  \/ NFetch(e) \/ NDelete(e) \/ NRetry(e)
  \/ Fault(e) \/ Return(e)

\* one caller, working on one environment, one call after another
Callers == {"web/x"}

Next ==
  \/ \E e \in Callers : Step(e)
  \/ ForeignNoteWrite

Spec == Init /\ [][Next]_vars

\* the same caller, also saving through LocalRemote.Save
NextLocal ==
  \/ Next
  \/ \E e \in Callers : Save(e) \/ SNote(e) \/ SCommit(e)

SpecLocal == Init /\ [][NextLocal]_vars

\* two callers, one environment each, every git subprocess a step of its own;
\* no subprocess fails and nobody else writes the notes
StepConc(e) ==
  \/ Create(e) \/ Update(e)
  \/ IwStat(e) \/ IwFetch(e) \/ IwPush(e) \/ IwAdd(e) \/ IwApply(e) \/ IwCommit(e)
  \/ IwFetchId(e) \/ IwTrack(e)
  \/ New(e) \/ Load(e) \/ Mutate(e)
  \/ PExport(e) \/ PCommit(e) \/ PSave(e) \/ PFetch(e)
  \/ NFetch(e) \/ Return(e)

ConcIds == {"web/x", "api/y"}

NextConc == \E e \in ConcIds : StepConc(e)

SpecConc == Init /\ [][NextConc]_vars

\* one caller whose Update functions also record log notes; the other writer
\* of the source writes the log ref
StepLog(e) ==
  \/ Create(e) \/ Get(e) \/ Update(e)
  \/ IwStat(e) \/ IwFetch(e) \/ IwPush(e) \/ IwAdd(e) \/ IwApply(e) \/ IwCommit(e)
  \/ IwFetchId(e) \/ IwTrack(e)
  \/ New(e) \/ Load(e) \/ Mutate(e)
  \/ LAppend(e) \/ LFetch(e) \/ LDelete(e) \/ LRetry(e)
  \/ PExport(e) \/ PCommit(e) \/ PSave(e) \/ PFetch(e)
  \/ NFetch(e)
  \/ Fault(e) \/ Return(e)

NextLog ==
  \/ \E e \in Callers : StepLog(e)
  \/ ForeignLogWrite

SpecLog == Init /\ [][NextLog]_vars

\* saveState and loadState on one commit, over every History
NextNote ==
  \/ RtState
  \/ RtSave
  \/ RtLoad
  \/ RtNext

SpecNote == InitNote /\ [][NextNote]_vars

\* environment web/x is created, read and deleted; the source has the new file
\* app.py in its working tree
StepDelete(e) ==
  \/ Create(e) \/ Get(e)
  \/ IwStat(e) \/ IwFetch(e) \/ IwPush(e) \/ IwAdd(e) \/ IwApply(e) \/ IwCommit(e)
  \/ IwFetchId(e) \/ IwTrack(e)
  \/ New(e) \/ Load(e)
  \/ PExport(e) \/ PCommit(e) \/ PSave(e) \/ PFetch(e)
  \/ NFetch(e)
  \/ Fault(e) \/ IwAddPartial(e) \/ Return(e)
  \/ DeleteWorktree(e)
  \/ DeleteLocalRemoteBranch(e) \/ DbPrune(e) \/ DbBranch(e) \/ DbRemotePrune(e)

StepBeside(e) ==
  \/ Create(e)
  \/ IwStat(e) \/ IwFetch(e) \/ IwPush(e) \/ IwAdd(e) \/ IwApply(e) \/ IwCommit(e)
  \/ IwFetchId(e) \/ IwTrack(e)
  \/ New(e)
  \/ PExport(e) \/ PCommit(e) \/ PSave(e) \/ PFetch(e)
  \/ NFetch(e)
  \/ Return(e)

NextDelete == StepDelete("web/x")

InitDelete ==
  /\ Init
  /\ userTree = [SourceHead EXCEPT ![AppPy] = Text]

SpecDelete == InitDelete /\ [][NextDelete]_vars

\* the same while environment web/y, of the same Name, is created
NextBeside ==
  \/ StepDelete("web/x")
  \/ StepBeside("web/y")

SpecBeside == InitDelete /\ [][NextBeside]_vars

\* List on every set of branches
NextList ==
  \/ ListBranches
  \/ ListFails
  \/ ListFilter

SpecList == InitList /\ [][NextList]_vars

\* the classifier on every probe
NextSniff == Classify

SpecSniff == InitSniff /\ [][NextSniff]_vars

\* one caller opening the source repository again and again, while the user
\* may change the origin between two calls
OpenStep(o) ==
  \/ Open(o) \/ OGetUrl(o) \/ ONormalize(o) \/ OStat(o) \/ OMkdir(o) \/ OClone(o)
  \/ OCloneFails(o) \/ ORemote(o) \/ OBind(o) \/ OFault(o) \/ OReturn(o)

NextOpen ==
  \/ OpenStep("o1")
  \/ SetOrigin

SpecOpen == InitOpen /\ [][NextOpen]_vars

----------------------------------------------------------------------------
(* Properties *)

Count(seq, x) == Cardinality({i \in DOMAIN seq : seq[i] = x})

\* what a call did from the export of propagateToWorktree on
PropOps(ops) ==
  IF \E i \in DOMAIN ops : ops[i] = "export"
  THEN SubSeq(ops, CHOOSE i \in DOMAIN ops : ops[i] = "export", Len(ops))
  ELSE <<>>

Returned(e) == pc[e] = "done"
Succeeded(e) == pc[e] = "done" /\ result[e] = "ok"
Propagating(e) == call[e].op \in {"Create", "Update"}

Refs == <<commits, forkHeads, forkNotes, userHeads, userRemotes, userNotes>>

\* C1: when the worktree directory of an ID already exists, initializeWorktree
\* returns (the same path) at once: the call has run no fetch, push, worktree
\* add, apply, commit or branch command, and no ref of the mirror or of the
\* source repository, nor the worktree, has changed.
C1_IdempotentMaterialization ==
  [][\A e \in EnvIds :
       (pc[e] = "iw_stat" /\ worktree[e].exists /\ pc'[e] # pc[e])
         => /\ pc'[e] = AfterInit(call[e].op)
            /\ call'[e].ops = <<>>
            /\ UNCHANGED Refs
            /\ UNCHANGED worktree]_vars

C1_Witness ==
  \E e \in EnvIds : call[e].wtAtEntry /\ pc[e] = "load" /\ call[e].ops = <<>>

\* C2: a successful initializeWorktree, also one that follows a failed one,
\* leaves the source repository with a local branch named ID, and (as long as
\* nothing was exported into the worktree yet) the tip of the environment
\* branch holds the source's uncommitted changes.
C2_RecoveryByReinvocation ==
  \A e \in EnvIds :
    pc[e] \in {"new", "load"}
      => /\ userHeads[e] # 0
         /\ worktree[e].files[ConfigFile] = Absent
              => \A p \in DiffPaths \cup UntrackedPaths :
                   Tree(forkHeads[e])[p] = userTree[p]

\* C3: a successful propagateToWorktree ran export, commit, state note, fetch
\* of the environment branch, propagation of the state note ref and then of
\* the log note ref, in this order.
NoteFetches(name) == {<<name>>, <<name, "update-ref -d", name>>}

C3_PropagationOrder ==
  \A e \in EnvIds :
    (Succeeded(e) /\ Propagating(e))
      => \E s \in NoteFetches("fetch state notes"), l \in NoteFetches("fetch log notes") :
           PropOps(call[e].ops) = <<"export", "commit", "save state", "fetch id">> \o s \o l

\* C4: whatever happened to earlier propagations, the History that Get loads
\* contains every entry of the History that saveState last wrote.
C4_HistorySurvives ==
  \A e \in EnvIds :
    (call[e].op \in {"Get", "Update"} /\ (pc[e] = "mutate" \/ Succeeded(e)))
      => IsPrefix(saved[e], env[e].History)

\* C5: after a successful call that created a commit (propagateToWorktree or
\* LocalRemote.Save), the state note with the serialized History is attached
\* to the worktree's HEAD.
C5_NoteOnNewCommit ==
  \A e \in EnvIds :
    (Succeeded(e) /\ call[e].op \in {"Create", "Update", "Save"} /\ call[e].committed)
      => /\ forkHeads[e] \in DOMAIN forkNotes.map
         /\ forkNotes.map[forkHeads[e]] = env[e].History

\* C6: every path that status reports as deleted is staged by the commit step.
C6_DeletionPrecedence ==
  \A e \in EnvIds :
    \A line \in lastCommit[e].status :
      (line.x = "D" \/ line.y = "D") => line.name \in lastCommit[e].added

\* C7: a commit step that finds changes but stages none of them creates no
\* commit and returns no error, so the call does not fail at the commit step.
C7_CommitOnlyIfStaged ==
  \A e \in EnvIds :
    (lastCommit[e].status # {} /\ lastCommit[e].added = {})
      => /\ ~lastCommit[e].error
         /\ (call[e].ops # <<>> /\ call[e].ops[Len(call[e].ops)] = "commit" /\ ~call[e].faulted)
              => result[e] # "error"

\* C8: re-running the propagation with unchanged container content after a
\* fully successful one succeeds, creates no commit, and leaves the branch
\* tip, the content of the state note and the source's view of the branch
\* as they were.
C8_RetryIsNoOp ==
  \A e \in EnvIds :
    (Returned(e) /\ call[e].op = "Update" /\ call[e].retry /\ ~call[e].faulted)
      => /\ result[e] = "ok"
         /\ ~call[e].committed
         /\ forkHeads[e] = call[e].head0
         /\ userRemotes[e] = call[e].head0
         /\ loadState(e) = env[e].History

\* C9: no call fetches the note ref more than twice or deletes it more than
\* once; a call whose first fetch was rejected deletes the source's ref, retries
\* the fetch once and, no subprocess failing, returns success with the source's
\* ref equal to the mirror's.
C9_ConflictRecovery ==
  [][\A e \in EnvIds :
       /\ Count(call'[e].ops, "fetch state notes") <= 2
       /\ Count(call'[e].ops, "update-ref -d") <= 1
       /\ (call[e].rejected /\ pc[e] # "done" /\ pc'[e] = "done" /\ ~call'[e].faulted)
            => /\ result'[e] = "ok"
               /\ userNotes' = forkNotes'
               /\ Count(call'[e].ops, "fetch state notes") = 2
               /\ Count(call'[e].ops, "update-ref -d") = 1]_vars

C9_Witness ==
  \E e \in EnvIds :
    /\ Succeeded(e) /\ call[e].rejected
    /\ Count(call[e].ops, "update-ref -d") = 1
    /\ userNotes = forkNotes

\* what a Create or Update of e, run alone, leaves behind: the worktree holds
\* the export, the branch tip is the tip the propagation started from plus one
\* commit of what the commit step stages (or that tip itself when the
\* worktree is clean), the state note of the tip is the History, and the
\* source repository has the tip as container-use/<id>
EndStateAsAlone(e) ==
  LET h0 == call[e].head0
      wt == worktree[e].files
      st == Status(Tree(h0), wt)
  IN /\ wt = Exported(container[e])
     /\ IF st = {}
        THEN forkHeads[e] = h0
        ELSE /\ commits[forkHeads[e]].parent = h0
             /\ Tree(forkHeads[e]) = StagedTree(Tree(h0), wt, addNonBinaryFiles(st, wt))
     /\ forkHeads[e] \in DOMAIN forkNotes.map
     /\ forkNotes.map[forkHeads[e]] = env[e].History
     /\ userRemotes[e] = forkHeads[e]

\* C10: two Create or Update calls on different IDs, interleaved at the
\* boundaries of their git subprocess calls, both succeed, and each leaves
\* its environment's branch tip, worktree content and state note as the call
\* leaves them when it runs alone.
C10_DifferentIdsIndependent ==
  (\A e \in ConcIds : Returned(e) /\ call[e].op \in {"Create", "Update"})
    => \A e \in ConcIds : result[e] = "ok" /\ EndStateAsAlone(e)

\* the part of C10 that does not depend on the commit step: a call that
\* succeeds beside a call on another ID leaves the same end state as alone
SucceededAsAlone ==
  \A e \in EnvIds :
    (Succeeded(e) /\ call[e].op \in {"Create", "Update"}) => EndStateAsAlone(e)

\* C11: whenever no Open is running, every mirror path is either absent or a
\* complete bare mirror, and an Open that succeeded has a complete bare
\* mirror at the path it chose.
C11_NoPartialMirror ==
  /\ (\A o \in Openers : opener[o].pc \in {"idle", "done"})
       => \A p \in MirrorPaths : mirror[p] \in {"absent", "bare"}
  /\ \A o \in Openers :
       (opener[o].pc = "done" /\ opener[o].result = "ok")
         => mirror[opener[o].forkRepoPath] = "bare"

\* C12: after a successful Open the mirror path of the Repository is the
\* path derived from the source (by its origin when it has one, else by its
\* local path), and the source's container-use remote names that path.
C12_MirrorIdentity ==
  \A o \in Openers :
    (opener[o].pc = "done" /\ opener[o].result = "ok")
      => /\ normalizeForkPath(SourcePath, remotes.origin).ok
         /\ opener[o].forkRepoPath = normalizeForkPath(SourcePath, remotes.origin).e
         /\ remotes.cu = normalizeForkPath(SourcePath, remotes.origin).e

\* C13: after a successful Create, every path with an uncommitted change in
\* the source (modified or deleted tracked file, untracked file) is in the tip
\* commit of the environment branch as it is in the source's working tree.
C13_TrueWorkingState ==
  \A e \in EnvIds :
    (Succeeded(e) /\ call[e].op = "Create")
      => \A p \in DiffPaths \cup UntrackedPaths : Tree(forkHeads[e])[p] = userTree[p]

\* the positions of a call after applyUncommittedChanges applied the patch
AfterApply ==
  {"iw_commit", "iw_fetchid", "iw_track", "new", "load", "mutate",
   "p_export", "p_commit", "p_save", "p_fetch", "n_fetch", "n_delete", "n_retry"}

\* C14: when the source's diff cannot be applied to the new worktree, Create
\* never gets past applyUncommittedChanges: it returns an error, runs no step
\* of propagateToWorktree, creates no commit and writes no state note.
C14_ApplyFailureAborts ==
  \A e \in EnvIds :
    (call[e].op = "Create" /\ ~PatchApplies(UserHeadTree))
      => /\ pc[e] \notin AfterApply
         /\ Returned(e)
              => /\ result[e] = "error"
                 /\ PropOps(call[e].ops) = <<>>
                 /\ ~call[e].committed
                 /\ Len(commits) = 1
                 /\ forkNotes = NoNotes

C14_Witness ==
  \E e \in EnvIds :
    /\ Returned(e) /\ call[e].op = "Create" /\ ~call[e].faulted
    /\ ~PatchApplies(UserHeadTree)
    /\ call[e].ops # <<>> /\ call[e].ops[Len(call[e].ops)] = "apply"

C17_LocalBranchAtTip ==
  \A e \in EnvIds :
    (Succeeded(e) /\ call[e].op \in {"Create", "Update"}) => userHeads[e] = forkHeads[e]

\* C18: after a successful Create or Update of ID, the source's ref
\* container-use/ID points at the same commit as branch ID in the mirror.
C18_RemoteRefAtTip ==
  \A e \in EnvIds :
    (Succeeded(e) /\ call[e].op \in {"Create", "Update"}) => userRemotes[e] = forkHeads[e]

C18_Witness ==
  \E e \in EnvIds :
    /\ Succeeded(e) /\ call[e].op = "Update" /\ call[e].committed
    /\ userRemotes[e] = forkHeads[e]
    /\ forkHeads[e] # call[e].head0

\* C19: after a successful Create or Update, the state note ref and the log
\* note ref of the source repository equal those of the mirror.
C19_BothNoteRefsPropagated ==
  \A e \in EnvIds :
    (Succeeded(e) /\ call[e].op \in {"Create", "Update"})
      => /\ userNotes = forkNotes
         /\ userLog = forkLog

\* C16: no step of Open, Create, Get or Update changes the checked-out branch
\* of the source repository, its index, a file of its working tree or a
\* branch other than the one named after the environment ID.
C16_CheckoutUntouched ==
  [][/\ checkout' = checkout
     /\ userTree' = userTree
     /\ \A b \in Branches \ EnvIds : userHeads'[b] = userHeads[b]]_vars

\* an Update that committed and propagated, on a source repository whose
\* working tree differs from its HEAD, has returned
C16_Witness ==
  \E e \in EnvIds :
    /\ Succeeded(e)
    /\ call[e].op = "Update"
    /\ call[e].committed
    /\ userHeads[e] # 0
    /\ userTree # Tree(userHeads[MainBranch])
    /\ checkout = [branch |-> MainBranch, index |-> SourceHead]

\* C20 (as stated): loadState after saveState on the same commit returns the
\* bytes that were saved; loadState on a commit without a state note returns
\* an empty result and no error.
C20_RoundTripBytes ==
  roundTrip.pc = "loaded"
    => /\ ~roundTrip.err
       /\ roundTrip.state # <<>> => roundTrip.loaded = roundTrip.state
       /\ ~roundTrip.note.has => roundTrip.loaded = <<>>

\* C20 (amended): loadState after saveState on the same commit returns the
\* saved bytes followed by one line terminator, and they decode to the
\* History that was saved; loadState on a commit without a state note returns
\* an empty result and no error.
C20_RoundTripValue ==
  roundTrip.pc = "loaded"
    => /\ ~roundTrip.err
       /\ roundTrip.state # <<>>
            => /\ roundTrip.loaded = roundTrip.state \o <<NL>>
               /\ Unmarshal(roundTrip.loaded) = [ok |-> TRUE, v |-> roundTrip.History]
       /\ ~roundTrip.note.has => roundTrip.loaded = <<>>

\* a History of two entries was saved over an older note and loaded again
C20_Witness ==
  /\ roundTrip.pc = "loaded"
  /\ roundTrip.state # <<>>
  /\ Len(roundTrip.History) >= 2
  /\ roundTrip.note.has
  /\ roundTrip.loaded = roundTrip.note.bytes

\* C21: a changed file that is not deleted, not staged yet, whose name no
\* denylist entry matches, of at most 10 MB and without a NUL byte in its first
\* 8000 bytes, is passed to git add, whatever its length.
C21_TextFilesStaged ==
  (/\ sniff.pc = "done"
   /\ sniff.line.x \in {"?", " "}
   /\ ~Deleted(sniff.line)
   /\ sniff.file.exists /\ ~sniff.file.denied /\ ~sniff.err
   /\ ~shouldSkipFile(sniff.line.name) /\ ~shouldSkipFile(sniff.rel)
   /\ sniff.file.size <= maxFileSizeForTextCheck
   /\ sniff.file.nul \notin 1..SampleLen)
    => sniff.rel \in sniff.added

\* C22: a file is binary when its first 8000 bytes hold a NUL byte or when it
\* is larger than 10 * 1024 * 1024 bytes; a file of exactly that size without
\* a NUL byte in its first 8000 bytes is not binary, and a NUL byte after the
\* first 8000 bytes alone does not make a file binary.
C22_SniffThresholds ==
  (sniff.pc = "done" /\ sniff.file.exists /\ ~sniff.file.denied)
    => /\ sniff.file.nul \in 1..SampleLen => sniff.binary
       /\ sniff.file.size > maxFileSizeForTextCheck => sniff.binary
       /\ (sniff.file.size = maxFileSizeForTextCheck /\ sniff.file.nul \notin 1..SampleLen)
            => ~sniff.binary
       /\ (sniff.file.nul > SampleLen /\ sniff.file.size <= maxFileSizeForTextCheck)
            => ~sniff.binary

\* a file of exactly 10 MB whose first NUL byte is byte 8001 was classified
C22_Witness ==
  /\ sniff.pc = "done"
  /\ sniff.file.exists
  /\ sniff.file.size = maxFileSizeForTextCheck
  /\ sniff.file.nul = SampleLen + 1
  /\ ~sniff.binary

\* C23: a path that is not deleted and whose lower-cased name ends with a
\* denylisted extension is never passed to git add, whatever its content,
\* size or status code.
C23_NameSkipIgnoresContent ==
  (/\ sniff.pc = "done"
   /\ ~Deleted(sniff.line)
   /\ \E i \in 1..Len(skipExtensions) : HasSuffix(ToLower(sniff.rel), skipExtensions[i]))
    => sniff.added = {}

\* ARCHIVE.TAR.GZ, one byte of text, untracked, was classified
C23_Witness ==
  /\ sniff.pc = "done"
  /\ sniff.line = [x |-> "?", y |-> "?", name |-> ArchiveUpper]
  /\ sniff.file = [exists |-> TRUE, size |-> 1, nul |-> 0, denied |-> FALSE]
  /\ ~sniff.binary
  /\ sniff.added = {}

\* C24: a commit step that finds the status of the worktree clean runs no git
\* add and no git commit, returns no error and leaves the branch tip, the
\* commits and the worktree as they were.
C24_NoOpCommit ==
  [][\A e \in EnvIds :
       (/\ pc[e] \in {"iw_commit", "p_commit"}
        /\ pc'[e] # pc[e]
        /\ ~call'[e].faulted
        /\ Status(Tree(forkHeads[e]), worktree[e].files) = {})
         => /\ commits' = commits
            /\ forkHeads' = forkHeads
            /\ worktree' = worktree
            /\ lastCommit'[e].added = {}
            /\ ~lastCommit'[e].error
            /\ ~call'[e].committed
            /\ result'[e] # "error"
            /\ pc'[e] \in {"iw_fetchid", "p_save"}]_vars

\* the commit step of an Update found the worktree clean and went on to saveState
C24_Witness ==
  \E e \in EnvIds :
    /\ pc[e] = "p_save"
    /\ call[e].op = "Update"
    /\ call[e].ops # <<>> /\ call[e].ops[Len(call[e].ops)] = "commit"
    /\ lastCommit[e].status = {}
    /\ ~call[e].committed
    /\ Status(Tree(forkHeads[e]), worktree[e].files) = {}

\* the members of a sequence
Range(seq) == {seq[i] : i \in DOMAIN seq}

\* C25: List returns exactly the branches of the mirror whose short name
\* contains "/", each once; without such a branch the result is the empty
\* list and no error.
C25_ListExact ==
  (listed.pc = "done" /\ ~listed.err)
    => /\ Range(listed.envs) = {b \in Range(listed.branches) : \E i \in DOMAIN b : b[i] = "/"}
       /\ Len(listed.envs) = Cardinality(Range(listed.envs))

\* List ran on a mirror that holds main, dev and two environment branches
C25_Witness ==
  /\ listed.pc = "done"
  /\ ~listed.err
  /\ listed.branches = <<BranchDev, BranchMain, BranchWebX, BranchWebY>>
  /\ listed.envs = <<BranchWebX, BranchWebY>>

\* C27: a step of DeleteWorktree(id) or DeleteLocalRemoteBranch(id) leaves the
\* worktree directory, the mirror branch and the notes of every other
\* environment ID unchanged, also of an ID with the same Name prefix.
C27_DeleteLeavesOthers ==
  [][\A e \in EnvIds :
       (\/ pc[e] = "idle" /\ pc'[e] = "idle" /\ worktree[e].exists /\ ~worktree'[e].exists
        \/ pc[e] \in {"db_prune", "db_branch", "db_rprune"} /\ pc'[e] # pc[e])
         => /\ \A f \in EnvIds \ {e} :
                 /\ worktree'[f] = worktree[f]
                 /\ forkHeads'[f] = forkHeads[f]
            /\ forkNotes' = forkNotes]_vars

\* commit a is commit b or one of its ancestors
RECURSIVE IsAncestor(_, _)
IsAncestor(a, b) == b # 0 /\ (a = b \/ IsAncestor(a, commits[b].parent))

\* C26: in every reachable state the commit that container-use/ID of the
\* source points at is the tip of branch ID in the mirror or one of its
\* ancestors.
C26_SourceNeverAhead ==
  \A e \in EnvIds : userRemotes[e] # 0 => IsAncestor(userRemotes[e], forkHeads[e])

\* a failure after the commit and before the fetch left the mirror ahead
C26_Witness ==
  \E e \in EnvIds :
    /\ Returned(e)
    /\ result[e] = "error"
    /\ call[e].committed
    /\ userRemotes[e] # 0
    /\ userRemotes[e] # forkHeads[e]
    /\ IsAncestor(userRemotes[e], forkHeads[e])

\* C26 (amended): no step of Create, Get or Update puts the source ahead of the
\* mirror; the one step that leaves container-use/ID of the source without its
\* commit in the mirror is the deletion of branch ID in the mirror.
C26_OnlyDeletionLeavesAhead ==
  [][(C26_SourceNeverAhead /\ \A e \in EnvIds : forkHeads'[e] = 0 => forkHeads[e] = 0)
       => C26_SourceNeverAhead']_vars

----------------------------------------------------------------------------
(* Create on a drawn ID *)

\* petname.Generate(2, "-") draws the suffix from a finite word list, and
\* nothing compares the ID with the branches or worktrees that exist
CreateDrawn(e) ==
  /\ pc[e] = "idle"
  /\ Begin(e, "Create")

StepDraw(e) ==
  \/ CreateDrawn(e) \/ Update(e)
  \/ IwStat(e) \/ IwFetch(e) \/ IwPush(e) \/ IwAdd(e) \/ IwApply(e) \/ IwCommit(e)
  \/ IwFetchId(e) \/ IwTrack(e)
  \/ New(e) \/ Load(e) \/ Mutate(e) \/ MutateFails(e)
  \/ PExport(e) \/ PCommit(e) \/ PSave(e) \/ PFetch(e)
  \/ NFetch(e)
  \/ Return(e)

NextDraw == StepDraw("web/x")

\* the source has the new file app.py in its working tree
SpecDraw == InitDelete /\ [][NextDraw]_vars

\* C28: Create never lands on an existing environment: a successful Create
\* found no worktree of its ID when it started and created the branch of its
\* ID itself (git worktree add -b), so the Environment it returns is bound to
\* a worktree, a branch and a state note that no earlier environment owns.
C28_CreateLandsOnNew ==
  \A e \in EnvIds :
    (Succeeded(e) /\ call[e].op = "Create")
      => /\ ~call[e].wtAtEntry
         /\ \E i \in DOMAIN call[e].ops : call[e].ops[i] = "worktree add -b"

----------------------------------------------------------------------------
(* Two callers propagate the state notes at the same time *)

\* git fetch is no single step when two of them run at once: it first reads
\* the refs it has and the refs the remote offers, transfers the objects, and
\* at the end updates its ref under a lock, on the condition that the ref
\* still has the value read at the start
FetchRefs(e, to) ==
  /\ Goto(e, to, [call EXCEPT ![e].refOld = userNotes, ![e].refNew = forkNotes])
  /\ UNCHANGED <<commits, forkHeads, forkNotes, userHeads, userRemotes, userNotes, userTree,
                 worktree, container, env, saved, lastCommit, entries, faults, foreign>>
  /\ UNCHANGED rest

\* the update: "[rejected]" when it is no fast-forward; "cannot lock ref"
\* when the ref was moved since it was read, an error that propagateGitNotes
\* returns as it is; on "[rejected]" the first fetch goes on to update-ref -d
\* and the retry returns the error
FetchUpdate(e, first) ==
  /\ LET c == Log(e, "fetch state notes") IN
       IF ~FastForward(call[e].refOld, call[e].refNew)
       THEN /\ UNCHANGED userNotes
            /\ IF first THEN Goto(e, "n_delete", [c EXCEPT ![e].rejected = TRUE])
                        ELSE Fail(e, c)
       ELSE IF userNotes # call[e].refOld
       THEN /\ UNCHANGED userNotes
            /\ Fail(e, c)
       ELSE /\ userNotes' = call[e].refNew
            /\ Finish(e, [c EXCEPT ![e].propOk = TRUE])
  /\ UNCHANGED <<commits, forkHeads, forkNotes, userHeads, userRemotes, userTree,
                 worktree, container, env, saved, lastCommit, entries, faults, foreign>>
  /\ UNCHANGED rest

NFetchRefs(e) ==
  /\ pc[e] = "n_fetch"
  /\ FetchRefs(e, "n_update")

NFetchUpdate(e) ==
  /\ pc[e] = "n_update"
  /\ FetchUpdate(e, TRUE)

NRetryRefs(e) ==
  /\ pc[e] = "n_retry"
  /\ FetchRefs(e, "n_reupdate")

NRetryUpdate(e) ==
  /\ pc[e] = "n_reupdate"
  /\ FetchUpdate(e, FALSE)

\* two callers, one environment each, every git subprocess a step of its own
\* and the fetches of the notes two steps; between two calls the source's
\* copy of the note ref may be written by someone else, so that the next
\* fetches are rejected; the source's working tree is clean, so
\* applyUncommittedChanges has nothing to commit
StepRace(e) ==
  \/ Create(e) \/ Update(e)
  \/ IwStat(e) \/ IwFetch(e) \/ IwPush(e) \/ IwAdd(e) \/ IwApply(e)
  \/ IwFetchId(e) \/ IwTrack(e)
  \/ New(e) \/ Load(e) \/ Mutate(e)
  \/ PExport(e) \/ PCommit(e) \/ PSave(e) \/ PFetch(e)
  \/ NFetchRefs(e) \/ NFetchUpdate(e) \/ NDelete(e) \/ NRetryRefs(e) \/ NRetryUpdate(e)
  \/ Return(e)

\* the second caller only creates its environment
StepRaceCreate(e) ==
  \/ Create(e)
  \/ IwStat(e) \/ IwFetch(e) \/ IwPush(e) \/ IwAdd(e) \/ IwApply(e)
  \/ IwFetchId(e) \/ IwTrack(e)
  \/ New(e)
  \/ PExport(e) \/ PCommit(e) \/ PSave(e) \/ PFetch(e)
  \/ NFetchRefs(e) \/ NFetchUpdate(e) \/ NDelete(e) \/ NRetryRefs(e) \/ NRetryUpdate(e)
  \/ Return(e)

NextRace ==
  \/ StepRace("web/x")
  \/ StepRaceCreate("api/y")
  \/ ForeignNoteWrite

InitRace ==
  /\ Init
  /\ userTree = SourceHead

SpecRace == InitRace /\ [][NextRace]_vars

InNotes(e) == pc[e] \in {"n_fetch", "n_update", "n_delete", "n_retry", "n_reupdate"}

\* C30: concurrent note propagation converges: under every interleaving of
\* the note writes, fetches and ref deletions of two environments of one
\* mirror, each propagateGitNotes call returns success, after at most one
\* delete-and-retry, and once both calls have returned success the source's
\* note ref equals the mirror's.
C30_NotesReturnOk ==
  \A e \in ConcIds :
    (InNotes(e) /\ pc'[e] = "done")
      => /\ result'[e] = "ok"
         /\ Count(call'[e].ops, "update-ref -d") <= 1

C30_BothDone ==
  (\A e \in ConcIds : Succeeded(e)) => userNotes = forkNotes

C30_Converges == []C30_BothDone /\ [][C30_NotesReturnOk]_vars

----------------------------------------------------------------------------
(* Two Open calls on one source repository at the same time *)

\* no subprocess fails by itself and the origin stays as it is
OpenStepPair(o) ==
  \/ Open(o) \/ OGetUrl(o) \/ ONormalize(o) \/ OStat(o) \/ OMkdir(o) \/ OClone(o)
  \/ ORemote(o) \/ OBind(o) \/ OReturn(o)

NextOpenPair == \E o \in Openers : OpenStepPair(o)

\* the source has an https origin and a clean working tree
InitOpenPair ==
  /\ InitOpen
  /\ remotes.origin = OriginHttps
  /\ userTree = SourceHead

SpecOpenPair == InitOpenPair /\ [][NextOpenPair]_vars

\* C31: two concurrent Open calls on a source repository that has no mirror
\* yet both return successfully and leave one valid bare mirror and the
\* container-use remote pointing at it, under every interleaving of their
\* steps.
C31_ConcurrentOpen ==
  (\A o \in Openers : opener[o].pc = "done")
    => \A o \in Openers :
         /\ opener[o].result = "ok"
         /\ mirror[opener[o].forkRepoPath] = "bare"
         /\ remotes.cu = opener[o].forkRepoPath

\* C32: when the first fetch of propagateGitNotes fails with an error that
\* reports no rejected ref, the call returns that error at once: it runs no
\* ref deletion and no second fetch, and the source's note ref is unchanged.
C32_FetchErrorReturned ==
  [][\A e \in EnvIds :
       (pc[e] = "n_fetch" /\ call'[e].faulted)
         => /\ pc'[e] = "done"
            /\ result'[e] = "error"
            /\ call'[e].ops = call[e].ops
            /\ ~call'[e].rejected
            /\ userNotes' = userNotes]_vars

\* a call whose first fetch of the notes failed, after its state note was written
C32_Witness ==
  \E e \in EnvIds :
    /\ pc[e] = "done"
    /\ call[e].faulted
    /\ Count(call[e].ops, "save state") = 1
    /\ call[e].ops[Len(call[e].ops)] = "fetch id"
    /\ Count(call[e].ops, "update-ref -d") = 0
    /\ userNotes # forkNotes

\* C33: when the function given to Update returns an error, Update returns
\* that error and no Environment and runs no export, commit, state-note
\* write, fetch or note propagation: mirror, worktree and source repository
\* stay as Get left them.
C33_FailedMutationStops ==
  [][\A e \in EnvIds :
       (pc[e] = "mutate" /\ Count(call'[e].ops, "fn error") > Count(call[e].ops, "fn error"))
         => /\ pc'[e] = "done"
            /\ result'[e] = "error"
            /\ PropOps(call'[e].ops) = <<>>
            /\ UNCHANGED <<commits, forkHeads, forkNotes, userHeads, userRemotes, userNotes,
                           userTree, worktree, saved>>]_vars

\* an Update on an environment that has commits and a state note returned
\* the error of its function
C33_Witness ==
  \E e \in EnvIds :
    /\ pc[e] = "done"
    /\ result[e] = "error"
    /\ call[e].op = "Update"
    /\ Count(call[e].ops, "fn error") = 1
    /\ forkHeads[e] \in DOMAIN forkNotes.map
    /\ userNotes = forkNotes

----------------------------------------------------------------------------
(* A name from the tool to the commit message *)

NextName ==
  \/ NameValidate
  \/ NameCreate
  \/ NameGet
  \/ NameUpdate

SpecName == InitName /\ [][NextName]_vars

\* C34: the commit created by Update carries the caller-supplied title: its
\* message is the title passed to Update, a blank line, then the explanation.
C34_CommitCarriesTitle ==
  named.pc = "updated"
    => named.message = named.title \o <<NL, NL>> \o named.explanation

\* C36: for every name accepted by validateName the ID built by Create has
\* exactly one "/", and Get on that ID rebuilds the name given to Create.
C36_NameRoundTrip ==
  /\ named.pc \in {"created", "got", "updated"}
       => Cardinality({i \in DOMAIN named.id : named.id[i] = "/"}) = 1
  /\ named.pc \in {"got", "updated"} => named.got = named.name

\* the name a-a, with a hyphen as the suffix has, came back from its ID
C36_Witness ==
  /\ named.pc = "got"
  /\ named.name = <<"a", "-", "a">>
  /\ named.id = <<"a", "-", "a", "/", "x", "-", "y">>
  /\ named.got = named.name

\* C35: Get does not create environments: Get on an ID that has no branch in
\* the mirror returns an error and creates no branch, worktree, commit or
\* tracking branch; Get on an environment whose worktree is present runs no
\* git subprocess that writes.  Stated for the calls in which no subprocess
\* fails by itself.
C35_GetDoesNotCreate ==
  \A e \in EnvIds :
    (pc[e] = "done" /\ call[e].op = "Get" /\ faults = 0)
      => /\ (call[e].head0 = 0 /\ ~call[e].wtAtEntry)
              => /\ result[e] = "error"
                 /\ forkHeads[e] = 0
                 /\ ~worktree[e].exists
                 /\ userHeads[e] = 0
         /\ call[e].wtAtEntry => call[e].ops = <<>>

\* C37: a path whose status line reports a deletion, in the index or in the
\* worktree, and whose name no denylist entry matches, is passed to git add,
\* whatever the other column of the status line says.
C37_DeletionStaged ==
  (/\ sniff.pc = "done"
   /\ Deleted(sniff.line)
   /\ ~shouldSkipFile(sniff.line.name))
    => sniff.added = {sniff.line.name}

\* C38: a path whose name ends with .tmp, .temp, .cache or .log is never
\* passed to git add.
C38_TempSuffixSkipped ==
  (/\ sniff.pc = "done"
   /\ ~Deleted(sniff.line)
   /\ \E sfx \in {<<".","t","m","p">>, <<".","t","e","m","p">>,
                  <<".","c","a","c","h","e">>, <<".","l","o","g">>} :
        HasSuffix(ToLower(sniff.rel), sfx))
    => sniff.added = {}

\* C39: no unreadable path makes addNonBinaryFiles fail: a file that cannot be
\* opened is binary and is not staged, and an unreadable entry met in the walk
\* of an untracked directory yields no error.
C39_UnreadableNeverFails ==
  (sniff.pc = "done")
    => /\ ~sniff.err
       /\ (sniff.file.exists /\ sniff.file.denied /\ ~Deleted(sniff.line))
            => (sniff.binary /\ sniff.added = {})

----------------------------------------------------------------------------
(* The MCP tool handlers that wrap Repository.Update *)

Tools ==
  {"environment_run_cmd", "environment_add_service", "environment_file_write",
   "environment_file_delete", "environment_update"}

\* what a tool call never writes
toolRest == <<commits, forkHeads, forkNotes, userHeads, userRemotes, userNotes, userTree,
              worktree, container, env, saved, lastCommit, entries, faults, foreign,
              pc, call, result, mirror, remotes, opener, checkout, forkLog, userLog,
              roundTrip, registered, sniff, listed, named>>

\* a request and what will go wrong while it is served: Get inside Update, the
\* wrapped operation of the environment, propagateToWorktree,
\* marshalEnvironment; background is an argument of run_cmd alone
ToolCalls ==
  {[NoTool EXCEPT !.name = n, !.background = b, !.getFails = g, !.opFails = o,
                  !.propagateFails = p, !.marshalFails = m] :
     n \in Tools, b \in BOOLEAN, g \in BOOLEAN, o \in BOOLEAN, p \in BOOLEAN,
     m \in BOOLEAN}

\* the handler calls repo.Update, whose first step is Get
ToolGet ==
  /\ tool.pc = "idle"
  /\ tool' = IF tool.getFails
             THEN [tool EXCEPT !.pc = "handle", !.updateErr = TRUE]
             ELSE [tool EXCEPT !.pc = "fn"]
  /\ UNCHANGED toolRest

\* the closure handed to Update runs the wrapped operation; Update returns
\* the closure's error at once. The closure of run_cmd returns nil when
\* env.Run fails and leaves its result variable unset.
ToolFn ==
  /\ tool.pc = "fn"
  /\ tool' =
       IF tool.opFails
       THEN IF tool.name = "environment_run_cmd" /\ ~tool.background
            THEN [tool EXCEPT !.pc = "propagate", !.opErr = TRUE]
            ELSE [tool EXCEPT !.pc = "handle", !.opErr = TRUE, !.fnErr = TRUE,
                              !.updateErr = TRUE]
       ELSE [tool EXCEPT !.pc = "propagate",
                         !.local = IF tool.name = "environment_run_cmd"
                                   THEN "text" ELSE "none"]
  /\ UNCHANGED toolRest

\* Update ends with propagateToWorktree and returns its error
ToolPropagate ==
  /\ tool.pc = "propagate"
  /\ tool' = [tool EXCEPT !.pc = "handle", !.updateErr = tool.propagateFails]
  /\ UNCHANGED toolRest

\* what the handler returns once Update is back
ToolHandle ==
  /\ tool.pc = "handle"
  /\ tool' = [tool EXCEPT
       !.pc = "done",
       !.result =
         IF tool.name = "environment_add_service" THEN "text"
         ELSE IF tool.updateErr THEN "error"
         ELSE IF tool.name = "environment_run_cmd" THEN tool.local
         ELSE IF tool.name = "environment_update" /\ tool.marshalFails THEN "error"
         ELSE "text"]
  /\ UNCHANGED toolRest

InitTool ==
  /\ InitEnv
  /\ userTree = SourceHead
  /\ sniff = NoSniff
  /\ listed = NoListed
  /\ named = NoNamed
  /\ tool \in {t \in ToolCalls :
                 /\ t.background => t.name = "environment_run_cmd"
                 /\ t.marshalFails => t.name = "environment_update"}

NextTool ==
  \/ ToolGet
  \/ ToolFn
  \/ ToolPropagate
  \/ ToolHandle

SpecTool == InitTool /\ [][NextTool]_vars

\* the wrapped operation or the Update failed in the call
ToolFailed == tool.opErr \/ tool.updateErr

\* C40: a tool handler that wraps Update returns an error result whenever the
\* wrapped operation of the environment or the Update failed, and returns a
\* success result only when both succeeded.
C40_NoSuccessOnFailure ==
  (tool.pc = "done")
    => /\ ToolFailed => tool.result = "error"
       /\ tool.result = "text" => ~ToolFailed

====
